---------------------------- MODULE Spec2Model ----------------------------
(***************************************************************************)
(* A model of the KUKA RSI communication library (src/src/kuka_rsi.c).     *)
(*                                                                         *)
(* The model follows the POSIX (#else) branches of the source: a pthread   *)
(* worker, a pthread mutex, pthread_join without a time budget, a 64-bit   *)
(* unsigned long.                                                          *)
(*                                                                         *)
(* Representation of C data:                                               *)
(*   - a C string / datagram is a sequence of one-character strings; the   *)
(*     NUL byte is the string "NUL";                                       *)
(*   - a uint32_t is a pair <<hi, lo>> of 16-bit halves (hi*65536 + lo);   *)
(*   - a double is a decimal floating-point record [neg, m, e] standing    *)
(*     for (-1)^neg * m * 10^(e-4): m is the value in units of 1e-4 and e  *)
(*     a further power of ten, so that both 1.25 and 1e100 are values;     *)
(*   - times are in microseconds.                                          *)
(***************************************************************************)
EXTENDS Integers, Sequences, FiniteSets, TLC

(***************************************************************************)
(* Program constants                                                       *)
(***************************************************************************)
DEFAULT_PORT == 59152
DEFAULT_TIMEOUT_MS == 1000
MAX_BUFFER_SIZE == 4096
RESPONSE_BUFFER_SIZE == 512
IPOC_BUFFER_SIZE == 32
LATE_THRESHOLD_US == 4000
MIN_SENTINEL_US == 9999000

TAG_IPOC_START ==
    <<"<","I","P","O","C",">">>
TAG_IPOC_END ==
    <<"<","/","I","P","O","C",">">>
TAG_RIST_START ==
    <<"<","R","I","s","t">>
TAG_AIPOS_START ==
    <<"<","A","I","P","o","s">>

\* RESPONSE_TEMPLATE, cut at its seven conversions
TPL_HEAD ==
    <<"<","S","e","n"," ","T","y","p","e","=","\"","I","m","F","r","e","e",
      "\"",">","\n","<","E","S","t","r",">","R","S","I"," ","M","o","n","i",
      "t","o","r","<","/","E","S","t","r",">","\n","<","R","K","o","r","r",
      " ","X","=","\"">>
TPL_Y ==
    <<"\""," ","Y","=","\"">>
TPL_Z ==
    <<"\""," ","Z","=","\"">>
TPL_A ==
    <<"\""," ","A","=","\"">>
TPL_B ==
    <<"\""," ","B","=","\"">>
TPL_C ==
    <<"\""," ","C","=","\"">>
TPL_IPOC ==
    <<"\""," ","/",">","\n","<","I","P","O","C",">">>
TPL_TAIL ==
    <<"<","/","I","P","O","C",">","\n","<","/","S","e","n",">">>

RSI_SUCCESS == "RSI_SUCCESS"
RSI_ERROR_INIT_FAILED == "RSI_ERROR_INIT_FAILED"
RSI_ERROR_ALREADY_RUNNING == "RSI_ERROR_ALREADY_RUNNING"
RSI_ERROR_NOT_RUNNING == "RSI_ERROR_NOT_RUNNING"
RSI_ERROR_SOCKET_FAILED == "RSI_ERROR_SOCKET_FAILED"
RSI_ERROR_THREAD_FAILED == "RSI_ERROR_THREAD_FAILED"
RSI_ERROR_INVALID_PARAM == "RSI_ERROR_INVALID_PARAM"

NULL == "NULL"

\* A pointer to a struct is a sequence: <<>> is the null pointer, <<v>> points
\* to the value v.
NullPtr == <<>>
Ptr(v) == <<v>>

(***************************************************************************)
(* C library helpers                                                       *)
(***************************************************************************)
SetMin(S) == CHOOSE x \in S : \A y \in S : x <= y

Digits == {"0","1","2","3","4","5","6","7","8","9"}

DigitVal(c) ==
    CASE c = "0" -> 0 [] c = "1" -> 1 [] c = "2" -> 2 [] c = "3" -> 3
      [] c = "4" -> 4 [] c = "5" -> 5 [] c = "6" -> 6 [] c = "7" -> 7
      [] c = "8" -> 8 [] c = "9" -> 9

DigitChar(d) == <<"0","1","2","3","4","5","6","7","8","9">>[d + 1]

IsSpace(c) == c \in {" ", "\t", "\n", "\r"}

\* The C string held in a buffer: the bytes before the first NUL.
CStr(buf) ==
    LET nuls == {i \in 1..Len(buf) : buf[i] = "NUL"}
    IN  IF nuls = {} THEN buf ELSE SubSeq(buf, 1, SetMin(nuls) - 1)

\* strstr on the suffix of s that starts at index from: the index of the
\* first occurrence of needle, 0 for a NULL result.
StrstrFrom(s, from, needle) ==
    LET hits == {i \in from..(Len(s) - Len(needle) + 1) :
                    /\ s[i] = needle[1]
                    /\ SubSeq(s, i, i + Len(needle) - 1) = needle}
    IN  IF hits = {} THEN 0 ELSE SetMin(hits)

IsDigit(c) == c \in Digits

\* Index after the run of white space of s that starts at index i.
SkipSpaces(s, i) ==
    SetMin({j \in i..(Len(s) + 1) : j = Len(s) + 1 \/ ~IsSpace(s[j])})

\* Index after the run of decimal digits of s that starts at index i.
SkipDigits(s, i) ==
    SetMin({j \in i..(Len(s) + 1) : j = Len(s) + 1 \/ ~IsDigit(s[j])})

(***************************************************************************)
(* strtoul(s, NULL, 10) followed by the cast to uint32_t.  The 64-bit      *)
(* accumulator is four 16-bit limbs, least significant first; an overflow  *)
(* of unsigned long yields ULONG_MAX.                                      *)
(***************************************************************************)
Limb == 256 * 256

RECURSIVE DigitsValue(_, _, _, _)
\* The number written by the digits s[i..j-1], continuing from acc.
DigitsValue(s, i, j, acc) ==
    IF i >= j THEN acc ELSE DigitsValue(s, i + 1, j, acc * 10 + DigitVal(s[i]))

\* L * mul + add on the 64-bit accumulator L, for mul <= 10000, add < 10000
MulAdd(L, mul, add) ==
    LET t1 == L[1] * mul + add
        t2 == L[2] * mul + (t1 \div Limb)
        t3 == L[3] * mul + (t2 \div Limb)
        t4 == L[4] * mul + (t3 \div Limb)
    IN  [limbs |-> <<t1 % Limb, t2 % Limb, t3 % Limb, t4 % Limb>>,
         overflow |-> (t4 \div Limb) > 0]

RECURSIVE StrtoulDigits(_, _, _)
\* The accumulator after the digits s[from..to], taken four digits at a
\* time (acc = acc * 10 + digit, four times over); overflow is sticky.
StrtoulDigits(s, from, to) ==
    IF to < from THEN [limbs |-> <<0, 0, 0, 0>>, overflow |-> FALSE]
    ELSE IF to - from < 4
    THEN [limbs |-> <<DigitsValue(s, from, to + 1, 0), 0, 0, 0>>, overflow |-> FALSE]
    ELSE LET prev == StrtoulDigits(s, from, to - 4)
             r == MulAdd(prev.limbs, 10000, DigitsValue(s, to - 3, to + 1, 0))
         IN  [limbs |-> r.limbs, overflow |-> prev.overflow \/ r.overflow]

\* Two's complement negation of the low 32 bits <<hi, lo>>.
NegU32(v) ==
    IF v[2] = 0 THEN <<(Limb - v[1]) % Limb, 0>>
    ELSE <<Limb - 1 - v[1], Limb - v[2]>>

StrtoulU32(s) ==
    LET i0 == SkipSpaces(s, 1)
        signed == i0 <= Len(s) /\ s[i0] \in {"+", "-"}
        neg == signed /\ s[i0] = "-"
        i1 == IF signed THEN i0 + 1 ELSE i0
        r == StrtoulDigits(s, i1, SkipDigits(s, i1) - 1)
        low == <<r.limbs[2], r.limbs[1]>>
    IN  IF r.overflow THEN <<Limb - 1, Limb - 1>>
        ELSE IF neg THEN NegU32(low) ELSE low

U32Zero == <<0, 0>>

(***************************************************************************)
(* Doubles                                                                 *)
(***************************************************************************)
DZero == [neg |-> FALSE, m |-> 0, e |-> 0]

\* atof on the suffix of s from index from: optional white space, optional
\* sign, decimal digits, optional fraction.  The result keeps four
\* fractional digits (the resolution of the model's doubles); exponents,
\* hexadecimal floats, inf and nan do not occur in the model's frames.
Atof(s, from) ==
    LET i0 == SkipSpaces(s, from)
        signed == i0 <= Len(s) /\ s[i0] \in {"+", "-"}
        neg == signed /\ s[i0] = "-"
        i1 == IF signed THEN i0 + 1 ELSE i0
        i2 == SkipDigits(s, i1)
        dot == i2 <= Len(s) /\ s[i2] = "."
        f1 == IF dot THEN i2 + 1 ELSE i2
        f2 == IF dot THEN SkipDigits(s, f1) ELSE f1
        nfrac == IF f2 - f1 > 4 THEN 4 ELSE f2 - f1
        ip == DigitsValue(s, i1, i2, 0)
        fp == DigitsValue(s, f1, f1 + nfrac, 0)
        scale == <<1000, 100, 10, 1>>
        mant == ip * 10000 + (IF nfrac = 0 THEN 0 ELSE fp * scale[nfrac])
    IN  IF i2 = i1 /\ f2 = f1 THEN DZero
        ELSE [neg |-> neg /\ mant # 0, m |-> mant, e |-> 0]

RECURSIVE NatToStr(_)
NatToStr(n) ==
    IF n < 10 THEN <<DigitChar(n)>>
    ELSE NatToStr(n \div 10) \o <<DigitChar(n % 10)>>

Zeros(n) == [i \in 1..n |-> "0"]

\* printf("%.4f", d)
Fmt4(d) ==
    LET raw == NatToStr(d.m) \o Zeros(IF d.m = 0 THEN 0 ELSE d.e)
        all == IF Len(raw) < 5 THEN Zeros(5 - Len(raw)) \o raw ELSE raw
        n == Len(all)
    IN  (IF d.neg THEN <<"-">> ELSE <<>>)
          \o SubSeq(all, 1, n - 4) \o <<".">> \o SubSeq(all, n - 3, n)


(***************************************************************************)
(* Frame codec                                                             *)
(***************************************************************************)
\* extract_ipoc(xml_data, ipoc_buffer, sizeof ipoc_buffer, &ipoc_value)
extract_ipoc(xml_data, buffer_size) ==
    LET xml == CStr(xml_data)
        tag == StrstrFrom(xml, 1, TAG_IPOC_START)
        start_pos == tag + Len(TAG_IPOC_START)
        end_pos == IF tag = 0 THEN 0 ELSE StrstrFrom(xml, start_pos, TAG_IPOC_END)
        full == end_pos - start_pos
        len == IF full >= buffer_size THEN buffer_size - 1 ELSE full
        text == SubSeq(xml, start_pos, start_pos + len - 1)
    IN  IF tag = 0 \/ end_pos = 0
        THEN [ok |-> FALSE, ipoc_buffer |-> <<>>, ipoc_value |-> U32Zero]
        ELSE [ok |-> TRUE, ipoc_buffer |-> text, ipoc_value |-> StrtoulU32(text)]

\* parse_position_attr(xml, attr_name), xml being the suffix of s from index from
parse_position_attr(s, from, attr_name) ==
    LET search_str == attr_name \o <<"=", "\"">>
        attr_pos == StrstrFrom(s, from, search_str)
    IN  IF attr_pos = 0 THEN DZero ELSE Atof(s, attr_pos + Len(search_str))

\* parse_cartesian_position(xml_data, position): position is the buffer as it
\* was, the result is [ok, position] with the buffer as it is left.
parse_cartesian_position(xml_data, position, now_us) ==
    LET xml == CStr(xml_data)
        rist_tag == StrstrFrom(xml, 1, TAG_RIST_START)
    IN  IF rist_tag = 0 THEN [ok |-> FALSE, position |-> position]
        ELSE [ok |-> TRUE,
              position |->
                [position EXCEPT
                   !.x = parse_position_attr(xml, rist_tag, <<"X">>),
                   !.y = parse_position_attr(xml, rist_tag, <<"Y">>),
                   !.z = parse_position_attr(xml, rist_tag, <<"Z">>),
                   !.a = parse_position_attr(xml, rist_tag, <<"A">>),
                   !.b = parse_position_attr(xml, rist_tag, <<"B">>),
                   !.c = parse_position_attr(xml, rist_tag, <<"C">>),
                   !.timestamp_us = now_us]]

\* parse_joint_position(xml_data, position)
parse_joint_position(xml_data, position, now_us) ==
    LET xml == CStr(xml_data)
        aipos_tag == StrstrFrom(xml, 1, TAG_AIPOS_START)
    IN  IF aipos_tag = 0 THEN [ok |-> FALSE, position |-> position]
        ELSE [ok |-> TRUE,
              position |->
                [position EXCEPT
                   !.axis = [i \in 1..6 |->
                               parse_position_attr(xml, aipos_tag,
                                                   <<"A", DigitChar(i)>>)],
                   !.timestamp_us = now_us]]

\* The text snprintf would produce with an unlimited buffer.
RenderTemplate(ipoc, correction) ==
    TPL_HEAD \o Fmt4(correction.x) \o TPL_Y \o Fmt4(correction.y)
        \o TPL_Z \o Fmt4(correction.z) \o TPL_A \o Fmt4(correction.a)
        \o TPL_B \o Fmt4(correction.b) \o TPL_C \o Fmt4(correction.c)
        \o TPL_IPOC \o ipoc \o TPL_TAIL

\* Faulty variant: a reply rendered without the stored correction.
generate_response_NoCorrection(ipoc, correction, buffer_size) ==
    LET zero == [x |-> DZero, y |-> DZero, z |-> DZero,
                 a |-> DZero, b |-> DZero, c |-> DZero]
        text == RenderTemplate(ipoc, zero)
    IN  IF Len(text) >= buffer_size
        THEN [len |-> 0, buffer |-> SubSeq(text, 1, buffer_size - 1)]
        ELSE [len |-> Len(text), buffer |-> text]

\* generate_response(ipoc, correction, buffer, buffer_size): [len, buffer],
\* len being the value returned and buffer the C string left in the buffer.
generate_response(ipoc, correction, buffer_size) ==
    LET text == RenderTemplate(ipoc, correction)
        written == Len(text)
    IN  IF written >= buffer_size
        THEN [len |-> 0, buffer |-> SubSeq(text, 1, buffer_size - 1)]
        ELSE [len |-> written, buffer |-> text]

(***************************************************************************)
(* Inputs: the datagrams the robot side may send, the arguments clients    *)
(* may pass                                                                *)
(***************************************************************************)
\* datagrams received, clock ticks
MaxFrames == 1
MaxTicks == 1
\* datagrams received in the statistics specification (SpecStats)
MaxStatFrames == 2
\* one clock tick: longer than the default liveness timeout
TickUs == 2 * DEFAULT_TIMEOUT_MS * 1000

DEFAULT_LOCAL_IP == "0.0.0.0"

ROB_OPEN ==
    <<"<","R","o","b"," ","T","y","p","e","=","\"","K","U","K","A","\"",">">>
RIST_ELEM ==
    <<"<","R","I","s","t"," ","X","=","\"","1","0","0",".","0","\""," ","Y",
      "=","\"","-","2",".","5","\""," ","Z","=","\"","3","\""," ","A","=",
      "\"","4","\""," ","B","=","\"","5","\""," ","C","=","\"","6","\"","/",
      ">">>
AIPOS_ELEM ==
    <<"<","A","I","P","o","s"," ","A","1","=","\"","1","0","\""," ","A","2",
      "=","\"","2","0","\""," ","A","3","=","\"","3","0","\""," ","A","4",
      "=","\"","4","0","\""," ","A","5","=","\"","5","0","\""," ","A","6",
      "=","\"","6","0","\"","/",">">>
ROB_CLOSE ==
    <<"<","/","R","o","b",">">>
IPOC_TEXT_1234 ==
    <<"0","0","0","1","2","3","4">>
IPOC_TEXT_GARBAGE ==
    <<"1","2","a","b">>
IPOC_TEXT_LONG ==
    <<"0","0","0","0","0","0","0","0","0","0","0","0","0","0","0","0","0",
      "0","0","0","0","0","0","0","0","0","0","0","1","2","3","4">>
IPOC_TEXT_MAX ==
    <<"4","2","9","4","9","6","7","2","9","5">>
IPOC_TEXT_WRAP ==
    <<"4","2","9","4","9","6","7","2","9","6">>

IpocElem(text) == TAG_IPOC_START \o text \o TAG_IPOC_END

FRAME_FULL == ROB_OPEN \o RIST_ELEM \o AIPOS_ELEM \o IpocElem(IPOC_TEXT_1234) \o ROB_CLOSE
FRAME_NO_IPOC == ROB_OPEN \o RIST_ELEM \o AIPOS_ELEM \o ROB_CLOSE
FRAME_NO_IPOC_END ==
    ROB_OPEN \o RIST_ELEM \o AIPOS_ELEM \o TAG_IPOC_START \o IPOC_TEXT_1234 \o ROB_CLOSE
FRAME_IPOC_EMPTY == ROB_OPEN \o RIST_ELEM \o AIPOS_ELEM \o IpocElem(<<>>) \o ROB_CLOSE
FRAME_IPOC_GARBAGE ==
    ROB_OPEN \o RIST_ELEM \o AIPOS_ELEM \o IpocElem(IPOC_TEXT_GARBAGE) \o ROB_CLOSE
FRAME_IPOC_LONG == ROB_OPEN \o RIST_ELEM \o AIPOS_ELEM \o IpocElem(IPOC_TEXT_LONG) \o ROB_CLOSE
FRAME_IPOC_MAX == ROB_OPEN \o RIST_ELEM \o AIPOS_ELEM \o IpocElem(IPOC_TEXT_MAX) \o ROB_CLOSE
FRAME_IPOC_WRAP == ROB_OPEN \o RIST_ELEM \o AIPOS_ELEM \o IpocElem(IPOC_TEXT_WRAP) \o ROB_CLOSE
FRAME_NO_AIPOS == ROB_OPEN \o RIST_ELEM \o IpocElem(IPOC_TEXT_1234) \o ROB_CLOSE

\* <RIst without the attribute X, and the setpoint element <RSol of a KUKA
\* frame, which has one
RIST_NO_X_ELEM ==
    <<"<","R","I","s","t"," ","Y","=","\"","-","2",".","5","\""," ","Z","=",
      "\"","3","\""," ","A","=","\"","4","\""," ","B","=","\"","5","\""," ",
      "C","=","\"","6","\"","/",">">>
RSOL_ELEM ==
    <<"<","R","S","o","l"," ","X","=","\"","7",".","5","\"","/",">">>
FRAME_NO_X ==
    ROB_OPEN \o RIST_NO_X_ELEM \o AIPOS_ELEM \o IpocElem(IPOC_TEXT_1234)
             \o ROB_CLOSE
FRAME_NO_X_RSOL ==
    ROB_OPEN \o RIST_NO_X_ELEM \o RSOL_ELEM \o AIPOS_ELEM
             \o IpocElem(IPOC_TEXT_1234) \o ROB_CLOSE
\* frames with every attribute, with X missing, and with X missing from
\* <RIst but present in a later element
AttrFrames == {FRAME_FULL, FRAME_NO_X, FRAME_NO_X_RSOL}

\* The datagrams of the lifecycle specification (Spec), of the wire
\* specification (SpecWire) and of the link specification (SpecLink), and
\* the addresses they come from.
Frames == {FRAME_FULL}
WireFrames ==
    {FRAME_FULL, FRAME_NO_IPOC, FRAME_NO_IPOC_END, FRAME_IPOC_EMPTY,
     FRAME_IPOC_GARBAGE, FRAME_IPOC_LONG, FRAME_NO_AIPOS}
LinkFrames == {FRAME_FULL, FRAME_NO_IPOC, FRAME_NO_IPOC_END}
\* frames whose IPOC is a decimal number: short, padded with zeros, the
\* largest 32-bit value and the one after it
CounterFrames == {FRAME_FULL, FRAME_IPOC_LONG, FRAME_IPOC_MAX, FRAME_IPOC_WRAP}

Addrs == {"robotA"}
LinkAddrs == {"robotA", "robotB"}

Config(t) ==
    [local_ip |-> DEFAULT_LOCAL_IP, local_port |-> DEFAULT_PORT,
     timeout_ms |-> t, verbose |-> FALSE]
ConfigArgs == {NullPtr, Ptr(Config(0))}

CallbackArgs ==
    {[data |-> NULL, connection |-> NULL, user_data |-> NULL],
     [data |-> "on_data", connection |-> "on_conn", user_data |-> "ud"]}

D(neg, m, e) == [neg |-> neg, m |-> m, e |-> e]
Corr(x, y, z, a, b, c) == [x |-> x, y |-> y, z |-> z, a |-> a, b |-> b, c |-> c]
CORR_ZERO == Corr(DZero, DZero, DZero, DZero, DZero, DZero)
\* {x = 1.25, y = -0.5, rest 0}
CORR_SMALL == Corr(D(FALSE, 12500, 0), D(TRUE, 5000, 0), DZero, DZero, DZero, DZero)
\* all six fields 1e100
DHuge == D(FALSE, 10000, 100)
CORR_HUGE == Corr(DHuge, DHuge, DHuge, DHuge, DHuge, DHuge)
CorrectionArgs == {NullPtr, Ptr(CORR_SMALL)}
WireCorrectionArgs == {Ptr(CORR_ZERO), Ptr(CORR_SMALL), Ptr(CORR_HUGE)}
\* all six fields 1.0
CORR_ONES ==
    Corr(D(FALSE, 10000, 0), D(FALSE, 10000, 0), D(FALSE, 10000, 0),
         D(FALSE, 10000, 0), D(FALSE, 10000, 0), D(FALSE, 10000, 0))
\* the corrections of the concurrent clients
ConcurrentCorrectionArgs == {Ptr(CORR_SMALL), Ptr(CORR_ONES)}

(***************************************************************************)
(* State                                                                   *)
(***************************************************************************)
VARIABLES
    g_context,          \* the RSI_Context singleton
    g_exit_requested,   \* the worker's shutdown flag
    data_lock,          \* owner of g_context.data_lock: "free", "worker"
    worker,             \* the network thread: position and locals
    ctl,                \* the client thread making lifecycle calls
    ret,                \* the API call that is returning to its caller
    now,                \* get_time_us()
    net,                \* the robot side of the socket
    clients             \* client threads inside RSI_SetCartesianCorrection

vars == <<g_context, g_exit_requested, data_lock, worker, ctl, ret, now, net,
          clients>>

ZeroCartesian ==
    [x |-> DZero, y |-> DZero, z |-> DZero, a |-> DZero, b |-> DZero,
     c |-> DZero, timestamp_us |-> 0, ipoc |-> U32Zero]
ZeroJoints == [axis |-> [i \in 1..6 |-> DZero], timestamp_us |-> 0, ipoc |-> U32Zero]

\* A latency in ms is held as a fraction of microseconds: [num, den] is
\* num/den microseconds, that is num/(den*1000) ms.
ZeroStats ==
    [packets_received |-> 0, packets_sent |-> 0,
     avg_response_time_ms |-> [num |-> 0, den |-> 1],
     min_response_time_ms |-> [num |-> 0, den |-> 1],
     max_response_time_ms |-> [num |-> 0, den |-> 1],
     late_responses |-> 0, connection_lost_count |-> 0,
     is_connected |-> FALSE, last_packet_timestamp_us |-> 0]

\* static RSI_Context g_context = {0}; also what memset leaves
ZeroContext ==
    [initialized |-> FALSE, running |-> FALSE,
     config |-> [local_ip |-> NULL, local_port |-> 0, timeout_ms |-> 0,
                 verbose |-> FALSE],
     sock |-> "zero",
     recv_buffer |-> <<>>, send_buffer |-> <<>>,
     network_thread |-> "none",
     data_callback |-> NULL, connection_callback |-> NULL,
     callback_user_data |-> NULL,
     cartesian |-> ZeroCartesian, joints |-> ZeroJoints,
     correction |-> CORR_ZERO,
     stats |-> ZeroStats]

IdleWorker ==
    [pc |-> "none", recv_len |-> 0, robot_addr |-> NULL, addr_copy |-> NULL,
     start_time |-> 0,
     ipoc_buffer |-> <<>>, ipoc_value |-> U32Zero,
     cartesian_parsed |-> FALSE, joints_parsed |-> FALSE,
     response_len |-> 0, cb_arg |-> NULL, cb_next |-> "none"]

\* ret is the API call that has just finished: its name, its pointer
\* argument, the value it returns and what it wrote to the caller's buffer
\* (<<>>: nothing).  The next step hands the result to the caller (Return).
NoRet == [op |-> "none", arg |-> NullPtr, code |-> "none", out |-> NullPtr]
\* no datagram yet; at is the clock value at which recvfrom returned it
NoDatagram == [src |-> NULL, data |-> <<>>, at |-> 0]
\* The socket as the robot side sees it: datagrams recvfrom has returned,
\* sendto calls in all, sendto calls that succeeded, sendto calls since the
\* last datagram was returned, that datagram, the last one given to sendto.
ZeroNet ==
    [received |-> 0, sent |-> 0, delivered |-> 0, replies |-> 0,
     last_in |-> NoDatagram, last_out |-> [dst |-> NULL, data |-> <<>>]]

\* The client threads that call RSI_SetCartesianCorrection concurrently:
\* where each is in the call, its argument, the fields memcpy has copied.
Clients == {"c1", "c2"}
IdleClient == [pc |-> "idle", arg |-> NullPtr, copied |-> 0]
IdleClients == [c \in Clients |-> IdleClient]

Init ==
    /\ g_context = ZeroContext
    /\ g_exit_requested = FALSE
    /\ data_lock = "free"
    /\ worker = IdleWorker
    /\ ctl = [pc |-> "idle", from_cleanup |-> FALSE]
    /\ ret = NoRet
    /\ now = 0
    /\ net = ZeroNet
    /\ clients = IdleClients

(***************************************************************************)
(* Lifecycle calls, made by one client thread (ctl).  A call that blocks   *)
(* or that is interleaved with the worker takes several steps.             *)
(***************************************************************************)
Returns(op, code) ==
    ret' = [op |-> op, arg |-> NullPtr, code |-> code, out |-> NullPtr]

\* Faulty variant: RSI_Init without its check.
RSI_Init_Check_Never(ctx) == RSI_SUCCESS

\* The check RSI_Init makes before it touches the context.
RSI_Init_Check(ctx) ==
    IF ctx.initialized THEN RSI_ERROR_ALREADY_RUNNING ELSE RSI_SUCCESS

\* Faulty variant: RSI_Init without the memset of the context.
RSI_Init_NoMemset(config) ==
    /\ ret = NoRet
    /\ ctl.pc = "idle"
    /\ IF RSI_Init_Check(g_context) # RSI_SUCCESS
       THEN /\ Returns("RSI_Init", RSI_ERROR_ALREADY_RUNNING)
            /\ UNCHANGED <<g_context, data_lock>>
       ELSE /\ g_context' =
                 [g_context EXCEPT
                    !.stats.min_response_time_ms = [num |-> MIN_SENTINEL_US, den |-> 1],
                    !.config = IF config = NullPtr
                               THEN Config(DEFAULT_TIMEOUT_MS)
                               ELSE config[1],
                    !.initialized = TRUE]
            /\ data_lock' = "free"
            /\ Returns("RSI_Init", RSI_SUCCESS)
    /\ UNCHANGED <<g_exit_requested, worker, ctl, now, net,
                   clients>>

\* RSI_Init(config)
RSI_Init(config) ==
    /\ ret = NoRet
    /\ ctl.pc = "idle"
    /\ IF RSI_Init_Check(g_context) # RSI_SUCCESS
       THEN /\ Returns("RSI_Init", RSI_ERROR_ALREADY_RUNNING)
            /\ UNCHANGED <<g_context, data_lock>>
       ELSE /\ g_context' =
                 [ZeroContext EXCEPT
                    !.stats.min_response_time_ms = [num |-> MIN_SENTINEL_US, den |-> 1],
                    !.config = IF config = NullPtr
                               THEN [local_ip |-> DEFAULT_LOCAL_IP,
                                     local_port |-> DEFAULT_PORT,
                                     timeout_ms |-> DEFAULT_TIMEOUT_MS,
                                     verbose |-> FALSE]
                               ELSE config[1],
                    !.initialized = TRUE]
            /\ data_lock' = "free"
            /\ Returns("RSI_Init", RSI_SUCCESS)
    /\ UNCHANGED <<g_exit_requested, worker, ctl, now, net,
                   clients>>

\* Faulty variant: RSI_SetCallbacks without the check of running.
RSI_SetCallbacks_Check_NoRunning(ctx) ==
    IF ~ctx.initialized THEN RSI_ERROR_INIT_FAILED ELSE RSI_SUCCESS

\* The checks RSI_SetCallbacks makes before it stores the callbacks.
RSI_SetCallbacks_Check(ctx) ==
    IF ~ctx.initialized THEN RSI_ERROR_INIT_FAILED
    ELSE IF ctx.running THEN RSI_ERROR_ALREADY_RUNNING
    ELSE RSI_SUCCESS

\* RSI_SetCallbacks(data_callback, connection_callback, user_data)
RSI_SetCallbacks(cb) ==
    /\ ret = NoRet
    /\ ctl.pc = "idle"
    /\ IF RSI_SetCallbacks_Check(g_context) # RSI_SUCCESS
       THEN /\ Returns("RSI_SetCallbacks", RSI_SetCallbacks_Check(g_context))
            /\ UNCHANGED g_context
       ELSE /\ g_context' = [g_context EXCEPT !.data_callback = cb.data,
                                              !.connection_callback = cb.connection,
                                              !.callback_user_data = cb.user_data]
            /\ Returns("RSI_SetCallbacks", RSI_SUCCESS)
    /\ UNCHANGED <<g_exit_requested, data_lock, worker, ctl, now, net,
                   clients>>

\* What create_optimized_socket and pthread_create may do.
\* setsockopt can fail for SO_REUSEADDR ("reuseaddr_failed") or for the
\* buffer sizes ("bufsize_failed").
StartOutcomes ==
    {"ok", "socket_failed", "reuseaddr_failed", "bufsize_failed", "bind_failed",
     "fcntl_failed", "thread_failed"}

\* RSI_Start up to and including pthread_create
RSI_Start(outcome) ==
    /\ ret = NoRet
    /\ ctl.pc = "idle"
    /\ UNCHANGED <<data_lock, now, net,
                   clients>>
    /\ IF ~g_context.initialized
       THEN /\ Returns("RSI_Start", RSI_ERROR_INIT_FAILED)
            /\ UNCHANGED <<g_context, g_exit_requested, worker, ctl>>
       ELSE IF g_context.running
       THEN /\ Returns("RSI_Start", RSI_ERROR_ALREADY_RUNNING)
            /\ UNCHANGED <<g_context, g_exit_requested, worker, ctl>>
       ELSE CASE outcome = "socket_failed" ->
                   /\ g_context' = [g_context EXCEPT !.sock = "invalid"]
                   /\ Returns("RSI_Start", RSI_ERROR_SOCKET_FAILED)
                   /\ UNCHANGED <<g_exit_requested, worker, ctl>>
              [] outcome \in {"reuseaddr_failed", "bind_failed", "fcntl_failed"} ->
                   /\ g_context' = [g_context EXCEPT !.sock = "closed"]
                   /\ Returns("RSI_Start", RSI_ERROR_SOCKET_FAILED)
                   /\ UNCHANGED <<g_exit_requested, worker, ctl>>
              [] outcome = "thread_failed" ->
                   /\ g_context' = [g_context EXCEPT !.sock = "closed"]
                   /\ g_exit_requested' = FALSE
                   /\ Returns("RSI_Start", RSI_ERROR_THREAD_FAILED)
                   /\ UNCHANGED <<worker, ctl>>
              [] outcome \in {"ok", "bufsize_failed"} ->
                   /\ g_context' = [g_context EXCEPT !.sock = "open",
                                                     !.network_thread = "worker"]
                   /\ g_exit_requested' = FALSE
                   /\ worker' = [IdleWorker EXCEPT !.pc = "top"]
                   /\ ctl' = [ctl EXCEPT !.pc = "start_running"]
                   /\ UNCHANGED ret

\* Faulty variant: RSI_Start clears the statistics and the correction.
RSI_Start_Running_Reset ==
    /\ ret = NoRet
    /\ ctl.pc = "start_running"
    /\ g_context' = [g_context EXCEPT !.running = TRUE,
                                      !.stats = ZeroStats,
                                      !.correction = CORR_ZERO]
    /\ ctl' = [ctl EXCEPT !.pc = "idle"]
    /\ Returns("RSI_Start", RSI_SUCCESS)
    /\ UNCHANGED <<g_exit_requested, data_lock, worker, now, net,
                   clients>>

\* RSI_Start after pthread_create: g_context.running = true; return
RSI_Start_Running ==
    /\ ret = NoRet
    /\ ctl.pc = "start_running"
    /\ g_context' = [g_context EXCEPT !.running = TRUE]
    /\ ctl' = [ctl EXCEPT !.pc = "idle"]
    /\ Returns("RSI_Start", RSI_SUCCESS)
    /\ UNCHANGED <<g_exit_requested, data_lock, worker, now, net,
                   clients>>

\* RSI_Stop up to the join: the checks, g_exit_requested = true
RSI_Stop ==
    /\ ret = NoRet
    /\ ctl.pc = "idle"
    /\ UNCHANGED <<g_context, data_lock, worker, now, net,
                   clients>>
    /\ IF ~g_context.initialized
       THEN /\ Returns("RSI_Stop", RSI_ERROR_INIT_FAILED)
            /\ UNCHANGED <<g_exit_requested, ctl>>
       ELSE IF ~g_context.running
       THEN /\ Returns("RSI_Stop", RSI_ERROR_NOT_RUNNING)
            /\ UNCHANGED <<g_exit_requested, ctl>>
       ELSE /\ g_exit_requested' = TRUE
            /\ ctl' = [pc |-> "stop_join", from_cleanup |-> FALSE]
            /\ UNCHANGED ret

\* RSI_Stop from pthread_join on: the worker has exited; close the socket,
\* g_context.running = false; return (to RSI_Cleanup when it made the call)
RSI_Stop_Join ==
    /\ ret = NoRet
    /\ ctl.pc = "stop_join"
    /\ worker.pc = "exited"
    /\ worker' = [worker EXCEPT !.pc = "none"]
    /\ g_context' = [g_context EXCEPT !.sock = "closed", !.running = FALSE]
    /\ IF ctl.from_cleanup
       THEN /\ ctl' = [ctl EXCEPT !.pc = "cleanup_rest"]
            /\ UNCHANGED ret
       ELSE /\ ctl' = [ctl EXCEPT !.pc = "idle"]
            /\ Returns("RSI_Stop", RSI_SUCCESS)
    /\ UNCHANGED <<g_exit_requested, data_lock, now, net,
                   clients>>

\* RSI_Stop where the wait for the worker has a budget (_WIN32:
\* WaitForSingleObject(network_thread, 1000) returns WAIT_TIMEOUT): the
\* worker has not ended; CloseHandle, close the socket,
\* g_context.running = false; return
RSI_Stop_WaitTimeout ==
    /\ ret = NoRet
    /\ ctl.pc = "stop_join"
    /\ worker.pc \notin {"exited", "none"}
    /\ g_context' = [g_context EXCEPT !.network_thread = NULL,
                                      !.sock = "closed",
                                      !.running = FALSE]
    /\ IF ctl.from_cleanup
       THEN /\ ctl' = [ctl EXCEPT !.pc = "cleanup_rest"]
            /\ UNCHANGED ret
       ELSE /\ ctl' = [ctl EXCEPT !.pc = "idle"]
            /\ Returns("RSI_Stop", RSI_SUCCESS)
    /\ UNCHANGED <<g_exit_requested, data_lock, worker, now, net, clients>>

\* Faulty variant: RSI_Cleanup without the call of RSI_Stop.
RSI_Cleanup_NoStop ==
    /\ ret = NoRet
    /\ ctl.pc = "idle"
    /\ UNCHANGED <<g_exit_requested, data_lock, worker, ctl, now, net,
                   clients>>
    /\ IF ~g_context.initialized
       THEN /\ Returns("RSI_Cleanup", RSI_ERROR_INIT_FAILED)
            /\ UNCHANGED g_context
       ELSE /\ g_context' = [g_context EXCEPT !.initialized = FALSE]
            /\ Returns("RSI_Cleanup", RSI_SUCCESS)

\* RSI_Cleanup: the checks; when running, the call of RSI_Stop
RSI_Cleanup ==
    /\ ret = NoRet
    /\ ctl.pc = "idle"
    /\ UNCHANGED <<data_lock, worker, now, net,
                   clients>>
    /\ IF ~g_context.initialized
       THEN /\ Returns("RSI_Cleanup", RSI_ERROR_INIT_FAILED)
            /\ UNCHANGED <<g_context, g_exit_requested, ctl>>
       ELSE IF g_context.running
       THEN /\ g_exit_requested' = TRUE
            /\ ctl' = [pc |-> "stop_join", from_cleanup |-> TRUE]
            /\ UNCHANGED ret
            /\ UNCHANGED g_context
       ELSE /\ g_context' = [g_context EXCEPT !.initialized = FALSE]
            /\ Returns("RSI_Cleanup", RSI_SUCCESS)
            /\ UNCHANGED <<g_exit_requested, ctl>>

\* RSI_Cleanup after its RSI_Stop returned
RSI_Cleanup_Rest ==
    /\ ret = NoRet
    /\ ctl.pc = "cleanup_rest"
    /\ g_context' = [g_context EXCEPT !.initialized = FALSE]
    /\ ctl' = [pc |-> "idle", from_cleanup |-> FALSE]
    /\ Returns("RSI_Cleanup", RSI_SUCCESS)
    /\ UNCHANGED <<g_exit_requested, data_lock, worker, now, net,
                   clients>>

\* The API call that has finished returns to its caller.
Return ==
    /\ ret # NoRet
    /\ ret' = NoRet
    /\ UNCHANGED <<g_context, g_exit_requested, data_lock, worker, ctl, now, net,
                   clients>>

(***************************************************************************)
(* Accessors, called by any client thread.  An accessor that reaches the   *)
(* lock takes it, copies and releases it in one step, which it can take    *)
(* only while the worker does not hold the lock.                           *)
(***************************************************************************)
\* The checks of RSI_GetCartesianPosition, RSI_GetJointPosition and
\* RSI_SetCartesianCorrection before the lock is taken.
RunningAccessorCheck(ctx, ptr) ==
    IF ~ctx.initialized THEN RSI_ERROR_INIT_FAILED
    ELSE IF ~ctx.running THEN RSI_ERROR_NOT_RUNNING
    ELSE IF ptr = NullPtr THEN RSI_ERROR_INVALID_PARAM
    ELSE RSI_SUCCESS

\* Faulty variant: RSI_GetStatistics without the check of initialized.
StatisticsCheck_NoInit(ctx, ptr) ==
    IF ptr = NullPtr THEN RSI_ERROR_INVALID_PARAM ELSE RSI_SUCCESS

\* The checks of RSI_GetStatistics before the lock is taken.
StatisticsCheck(ctx, ptr) ==
    IF ~ctx.initialized THEN RSI_ERROR_INIT_FAILED
    ELSE IF ptr = NullPtr THEN RSI_ERROR_INVALID_PARAM
    ELSE RSI_SUCCESS

Accessed(op, arg, code, out) ==
    ret' = [op |-> op, arg |-> arg, code |-> code, out |-> out]

\* RSI_GetCartesianPosition(position)
RSI_GetCartesianPosition(position) ==
    LET code == RunningAccessorCheck(g_context, position)
    IN  /\ ret = NoRet
        /\ code = RSI_SUCCESS => data_lock = "free"
        /\ Accessed("RSI_GetCartesianPosition", position, code,
                    IF code = RSI_SUCCESS THEN Ptr(g_context.cartesian) ELSE NullPtr)
        /\ UNCHANGED <<g_context, g_exit_requested, data_lock, worker, ctl, now, net,
                       clients>>

\* RSI_GetJointPosition(position)
RSI_GetJointPosition(position) ==
    LET code == RunningAccessorCheck(g_context, position)
    IN  /\ ret = NoRet
        /\ code = RSI_SUCCESS => data_lock = "free"
        /\ Accessed("RSI_GetJointPosition", position, code,
                    IF code = RSI_SUCCESS THEN Ptr(g_context.joints) ELSE NullPtr)
        /\ UNCHANGED <<g_context, g_exit_requested, data_lock, worker, ctl, now, net,
                       clients>>

\* RSI_SetCartesianCorrection(correction)
RSI_SetCartesianCorrection(correction) ==
    LET code == RunningAccessorCheck(g_context, correction)
    IN  /\ ret = NoRet
        /\ code = RSI_SUCCESS => data_lock = "free"
        /\ g_context' = IF code = RSI_SUCCESS
                        THEN [g_context EXCEPT !.correction = correction[1]]
                        ELSE g_context
        /\ Accessed("RSI_SetCartesianCorrection", correction, code, NullPtr)
        /\ UNCHANGED <<g_exit_requested, data_lock, worker, ctl, now, net,
                       clients>>

\* RSI_GetStatistics(stats)
RSI_GetStatistics(stats) ==
    LET code == StatisticsCheck(g_context, stats)
    IN  /\ ret = NoRet
        /\ code = RSI_SUCCESS => data_lock = "free"
        /\ Accessed("RSI_GetStatistics", stats, code,
                    IF code = RSI_SUCCESS THEN Ptr(g_context.stats) ELSE NullPtr)
        /\ UNCHANGED <<g_context, g_exit_requested, data_lock, worker, ctl, now, net,
                       clients>>

OutArgs == {NullPtr, Ptr("out")}

(***************************************************************************)
(* RSI_SetCartesianCorrection step by step, as several client threads run  *)
(* it at once: the checks and pthread_mutex_lock, memcpy one field at a    *)
(* time, pthread_mutex_unlock and the return.                              *)
(***************************************************************************)
\* the fields of RSI_CartesianCorrection in memory order
CorrectionFields == <<"x", "y", "z", "a", "b", "c">>

\* Faulty variant: the copy is made without taking the lock.
SCC_Lock_NoLock(c, correction) ==
    LET code == RunningAccessorCheck(g_context, correction)
    IN  /\ ret = NoRet
        /\ clients[c].pc = "idle"
        /\ code = RSI_SUCCESS
        /\ clients' = [clients EXCEPT
                         ![c] = [pc |-> "memcpy", arg |-> correction, copied |-> 0]]
        /\ UNCHANGED <<g_context, g_exit_requested, data_lock, worker, ctl, ret,
                       now, net>>

\* the checks, then pthread_mutex_lock(&g_context.data_lock)
SCC_Lock(c, correction) ==
    LET code == RunningAccessorCheck(g_context, correction)
    IN  /\ ret = NoRet
        /\ clients[c].pc = "idle"
        /\ IF code = RSI_SUCCESS
           THEN /\ data_lock = "free"
                /\ data_lock' = c
                /\ clients' = [clients EXCEPT
                                 ![c] = [pc |-> "memcpy", arg |-> correction,
                                         copied |-> 0]]
                /\ UNCHANGED ret
           ELSE /\ Accessed("RSI_SetCartesianCorrection", correction, code, NullPtr)
                /\ UNCHANGED <<data_lock, clients>>
        /\ UNCHANGED <<g_context, g_exit_requested, worker, ctl, now, net>>

\* memcpy(&g_context.correction, correction, ...): the next field
SCC_Copy(c) ==
    /\ ret = NoRet
    /\ clients[c].pc = "memcpy"
    /\ clients[c].copied < Len(CorrectionFields)
    /\ LET f == CorrectionFields[clients[c].copied + 1]
       IN  g_context' = [g_context EXCEPT !.correction[f] = clients[c].arg[1][f]]
    /\ clients' = [clients EXCEPT ![c].copied = @ + 1]
    /\ UNCHANGED <<g_exit_requested, data_lock, worker, ctl, ret, now, net>>

\* pthread_mutex_unlock and return RSI_SUCCESS
SCC_Unlock(c) ==
    /\ ret = NoRet
    /\ clients[c].pc = "memcpy"
    /\ clients[c].copied = Len(CorrectionFields)
    /\ data_lock' = "free"
    /\ clients' = [clients EXCEPT ![c] = IdleClient]
    /\ Accessed("RSI_SetCartesianCorrection", clients[c].arg, RSI_SUCCESS, NullPtr)
    /\ UNCHANGED <<g_context, g_exit_requested, worker, ctl, now, net>>

(***************************************************************************)
(* The clock                                                               *)
(***************************************************************************)
Tick(max_ticks) ==
    /\ ret = NoRet
    /\ now < max_ticks * TickUs
    /\ now' = now + TickUs
    /\ UNCHANGED <<g_context, g_exit_requested, data_lock, worker, ctl, ret, net,
                   clients>>

\* The clock around the late threshold: it advances by exactly 4 ms or by
\* 4 ms and a microsecond, up to MaxClockUs (two steps, one of each).
ClockSteps == {LATE_THRESHOLD_US, LATE_THRESHOLD_US + 1}
MaxClockUs == 8001

Elapse(us, max_us) ==
    /\ ret = NoRet
    /\ now + us <= max_us
    /\ now' = now + us
    /\ UNCHANGED <<g_context, g_exit_requested, data_lock, worker, ctl, ret, net,
                   clients>>

(***************************************************************************)
(* The network thread: network_thread_func, process_packet and             *)
(* check_connection_timeout, one step per stretch of code that other       *)
(* threads can observe.                                                    *)
(***************************************************************************)
WorkerStep == ret = NoRet /\ UNCHANGED ret

\* while (!g_exit_requested): the flag is set, the loop and the thread end
W_Exit ==
    /\ worker.pc = "top"
    /\ g_exit_requested
    /\ worker' = [worker EXCEPT !.pc = "exited"]
    /\ WorkerStep
    /\ UNCHANGED <<g_context, g_exit_requested, data_lock, ctl, now, net,
                   clients>>

\* recvfrom returns no datagram (recv_len <= 0)
W_RecvNone ==
    /\ worker.pc = "top"
    /\ ~g_exit_requested
    /\ worker' = [worker EXCEPT !.pc = "check_timeout", !.recv_len = -1]
    /\ WorkerStep
    /\ UNCHANGED <<g_context, g_exit_requested, data_lock, ctl, now, net,
                   clients>>

\* recvfrom returns a datagram: its bytes, NUL-terminated, and its source
W_Recv(src, data, max_frames) ==
    /\ worker.pc = "top"
    /\ ~g_exit_requested
    /\ g_context.sock = "open"
    /\ net.received < max_frames
    /\ Len(data) < MAX_BUFFER_SIZE
    /\ net' = [net EXCEPT !.received = @ + 1, !.replies = 0,
                          !.last_in = [src |-> src, data |-> data, at |-> now]]
    /\ g_context' = [g_context EXCEPT !.recv_buffer = data]
    /\ worker' = [worker EXCEPT !.pc = "pp_begin", !.recv_len = Len(data),
                                 !.robot_addr = src]
    /\ WorkerStep
    /\ UNCHANGED <<g_exit_requested, data_lock, ctl, now,
                   clients>>

\* Faulty variant: the link is marked connected without the callback.
W_Begin_SilentReconnect ==
    /\ worker.pc = "pp_begin"
    /\ g_context' = [g_context EXCEPT !.stats.is_connected = TRUE]
    /\ worker' = [worker EXCEPT !.pc = "pp_extract", !.start_time = now,
                                !.ipoc_buffer = <<>>,
                                !.ipoc_value = U32Zero]
    /\ WorkerStep
    /\ UNCHANGED <<g_exit_requested, data_lock, ctl, now, net,
                   clients>>

\* Faulty variant: the connection callback is called with the lock held.
W_Begin_LockedCallback ==
    /\ worker.pc = "pp_begin"
    /\ data_lock = "free"
    /\ IF ~g_context.stats.is_connected /\ g_context.connection_callback # NULL
       THEN /\ g_context' = [g_context EXCEPT !.stats.is_connected = TRUE]
            /\ data_lock' = "worker"
            /\ worker' = [worker EXCEPT !.pc = "cb_conn", !.cb_arg = TRUE,
                                        !.cb_next = "pp_extract",
                                        !.start_time = now,
                                        !.ipoc_buffer = <<>>,
                                        !.ipoc_value = U32Zero]
       ELSE /\ g_context' = [g_context EXCEPT !.stats.is_connected = TRUE]
            /\ worker' = [worker EXCEPT !.pc = "pp_extract", !.start_time = now,
                                        !.ipoc_buffer = <<>>,
                                        !.ipoc_value = U32Zero]
            /\ UNCHANGED data_lock
    /\ WorkerStep
    /\ UNCHANGED <<g_exit_requested, ctl, now, net, clients>>

\* process_packet: start_time, then the connection status
W_Begin ==
    /\ worker.pc = "pp_begin"
    /\ IF ~g_context.stats.is_connected
       THEN /\ g_context' = [g_context EXCEPT !.stats.is_connected = TRUE]
            /\ IF g_context.connection_callback # NULL
               THEN worker' = [worker EXCEPT !.pc = "cb_conn", !.cb_arg = TRUE,
                                             !.cb_next = "pp_extract",
                                             !.start_time = now,
                                             !.ipoc_buffer = <<>>,
                                             !.ipoc_value = U32Zero]
               ELSE worker' = [worker EXCEPT !.pc = "pp_extract",
                                             !.start_time = now,
                                             !.ipoc_buffer = <<>>,
                                             !.ipoc_value = U32Zero]
       ELSE /\ worker' = [worker EXCEPT !.pc = "pp_extract", !.start_time = now,
                                        !.ipoc_buffer = <<>>,
                                        !.ipoc_value = U32Zero]
            /\ UNCHANGED g_context
    /\ WorkerStep
    /\ UNCHANGED <<g_exit_requested, data_lock, ctl, now, net,
                   clients>>

\* the connection callback returns
W_ConnCallbackReturn ==
    /\ worker.pc = "cb_conn"
    /\ worker' = [worker EXCEPT !.pc = worker.cb_next, !.cb_arg = NULL,
                                !.cb_next = "none"]
    /\ WorkerStep
    /\ UNCHANGED <<g_context, g_exit_requested, data_lock, ctl, now, net,
                   clients>>

\* process_packet: extract_ipoc and the early return
W_Extract ==
    /\ worker.pc = "pp_extract"
    /\ LET r == extract_ipoc(g_context.recv_buffer, IPOC_BUFFER_SIZE)
       IN  IF ~r.ok
           THEN worker' = [worker EXCEPT !.pc = "check_timeout"]
           ELSE worker' = [worker EXCEPT !.pc = "pp_lock",
                                         !.ipoc_buffer = r.ipoc_buffer,
                                         !.ipoc_value = r.ipoc_value]
    /\ WorkerStep
    /\ UNCHANGED <<g_context, g_exit_requested, data_lock, ctl, now, net,
                   clients>>

\* process_packet under the lock: parse the positions, set their ipoc,
\* render the reply, copy the robot address
W_Locked ==
    /\ worker.pc = "pp_lock"
    /\ data_lock = "free"
    /\ data_lock' = "worker"
    /\ LET cp == parse_cartesian_position(g_context.recv_buffer, g_context.cartesian, now)
           jp == parse_joint_position(g_context.recv_buffer, g_context.joints, now)
           rs == generate_response(worker.ipoc_buffer, g_context.correction,
                                   RESPONSE_BUFFER_SIZE)
       IN  /\ g_context' =
                [g_context EXCEPT
                   !.cartesian = [cp.position EXCEPT !.ipoc = worker.ipoc_value],
                   !.joints = [jp.position EXCEPT !.ipoc = worker.ipoc_value],
                   !.send_buffer = rs.buffer]
           /\ worker' = [worker EXCEPT !.pc = "pp_unlock",
                                       !.cartesian_parsed = cp.ok,
                                       !.joints_parsed = jp.ok,
                                       !.response_len = rs.len,
                                       !.addr_copy = worker.robot_addr]
    /\ WorkerStep
    /\ UNCHANGED <<g_exit_requested, ctl, now, net,
                   clients>>

\* Faulty variant: the lock is still held when the reply is sent.
W_Unlock_KeepsLock ==
    /\ worker.pc = "pp_unlock"
    /\ worker' = [worker EXCEPT
                    !.pc = IF /\ g_context.data_callback # NULL
                              /\ worker.cartesian_parsed
                              /\ worker.joints_parsed
                           THEN "cb_data" ELSE "pp_send"]
    /\ WorkerStep
    /\ UNCHANGED <<g_context, g_exit_requested, data_lock, ctl, now, net,
                   clients>>

\* process_packet, the locked stretch step by step: the lock is taken and
\* both position buffers are parsed into
W_LockedParse ==
    /\ worker.pc = "pp_lock"
    /\ data_lock = "free"
    /\ data_lock' = "worker"
    /\ LET cp == parse_cartesian_position(g_context.recv_buffer, g_context.cartesian, now)
           jp == parse_joint_position(g_context.recv_buffer, g_context.joints, now)
       IN  /\ g_context' = [g_context EXCEPT !.cartesian = cp.position,
                                             !.joints = jp.position]
           /\ worker' = [worker EXCEPT !.pc = "pp_locked",
                                       !.cartesian_parsed = cp.ok,
                                       !.joints_parsed = jp.ok]
    /\ WorkerStep
    /\ UNCHANGED <<g_exit_requested, ctl, now, net, clients>>

\* process_packet, the rest of the locked stretch: the ipoc of both
\* buffers, the reply, the copy of the robot address
W_LockedRender ==
    /\ worker.pc = "pp_locked"
    /\ LET rs == generate_response(worker.ipoc_buffer, g_context.correction,
                                   RESPONSE_BUFFER_SIZE)
       IN  /\ g_context' =
                [g_context EXCEPT
                   !.cartesian.ipoc = worker.ipoc_value,
                   !.joints.ipoc = worker.ipoc_value,
                   !.send_buffer = rs.buffer]
           /\ worker' = [worker EXCEPT !.pc = "pp_unlock",
                                       !.response_len = rs.len,
                                       !.addr_copy = worker.robot_addr]
    /\ WorkerStep
    /\ UNCHANGED <<g_exit_requested, data_lock, ctl, now, net, clients>>

\* process_packet: unlock, then the data callback when it is due
\* Faulty variant: the data callback is invoked whether or not <AIPos was
\* parsed.
W_Unlock_CallbackWithoutJoints ==
    /\ worker.pc = "pp_unlock"
    /\ data_lock' = "free"
    /\ worker' = [worker EXCEPT
                    !.pc = IF /\ g_context.data_callback # NULL
                              /\ worker.cartesian_parsed
                           THEN "cb_data" ELSE "pp_send"]
    /\ WorkerStep
    /\ UNCHANGED <<g_context, g_exit_requested, ctl, now, net,
                   clients>>

W_Unlock ==
    /\ worker.pc = "pp_unlock"
    /\ data_lock' = "free"
    /\ worker' = [worker EXCEPT
                    !.pc = IF /\ g_context.data_callback # NULL
                              /\ worker.cartesian_parsed
                              /\ worker.joints_parsed
                           THEN "cb_data" ELSE "pp_send"]
    /\ WorkerStep
    /\ UNCHANGED <<g_context, g_exit_requested, ctl, now, net,
                   clients>>

\* the data callback returns
W_DataCallbackReturn ==
    /\ worker.pc = "cb_data"
    /\ worker' = [worker EXCEPT !.pc = "pp_send"]
    /\ WorkerStep
    /\ UNCHANGED <<g_context, g_exit_requested, data_lock, ctl, now, net,
                   clients>>

\* Faulty variant: every datagram goes to the peer that spoke first.
SendTo_FirstPeer(dst, data, delivered) ==
    net' = [net EXCEPT !.sent = @ + 1, !.replies = @ + 1,
                       !.delivered = IF delivered THEN @ + 1 ELSE @,
                       !.last_out =
                          [dst |-> IF net.last_out.dst = NULL THEN "robotA"
                                   ELSE net.last_out.dst,
                           data |-> data]]

\* sendto(sock, data, len, 0, dst, ...), which succeeds or fails
SendTo(dst, data, delivered) ==
    net' = [net EXCEPT !.sent = @ + 1, !.replies = @ + 1,
                       !.delivered = IF delivered THEN @ + 1 ELSE @,
                       !.last_out = [dst |-> dst, data |-> data]]

\* Faulty variant: the reply is rendered again when it is sent.
W_Send_RenderLate(delivered) ==
    /\ worker.pc = "pp_send"
    /\ delivered => g_context.sock = "open"
    /\ IF worker.response_len > 0
       THEN /\ LET rs == generate_response(worker.ipoc_buffer,
                                            g_context.correction,
                                            RESPONSE_BUFFER_SIZE)
               IN  SendTo(worker.addr_copy, SubSeq(rs.buffer, 1, rs.len),
                          delivered)
            /\ g_context' = [g_context EXCEPT !.stats.packets_sent = @ + 1]
       ELSE /\ delivered
            /\ UNCHANGED <<g_context, net>>
    /\ worker' = [worker EXCEPT !.pc = "pp_stats"]
    /\ WorkerStep
    /\ UNCHANGED <<g_exit_requested, data_lock, ctl, now,
                   clients>>

\* process_packet: sendto and packets_sent++
W_Send(delivered) ==
    /\ worker.pc = "pp_send"
    /\ delivered => g_context.sock = "open"
    /\ IF worker.response_len > 0
       THEN /\ SendTo(worker.addr_copy,
                      SubSeq(g_context.send_buffer, 1, worker.response_len),
                      delivered)
            /\ g_context' = [g_context EXCEPT !.stats.packets_sent = @ + 1]
       ELSE /\ delivered
            /\ UNCHANGED <<g_context, net>>
    /\ worker' = [worker EXCEPT !.pc = "pp_stats"]
    /\ WorkerStep
    /\ UNCHANGED <<g_exit_requested, data_lock, ctl, now,
                   clients>>

FracLess(p, q) == p.num * q.den < q.num * p.den

\* Faulty variant: a response of exactly 4 ms counts as late.
IsLateResponse_AtThreshold(processing_time) ==
    processing_time >= LATE_THRESHOLD_US

\* process_packet: processing_time_ms > 4.0, with processing_time in
\* microseconds
IsLateResponse(processing_time) == processing_time > LATE_THRESHOLD_US

\* process_packet: the statistics
W_Stats ==
    /\ worker.pc = "pp_stats"
    /\ LET end_time == now
           processing_time == end_time - worker.start_time
           processing_time_ms == [num |-> processing_time, den |-> 1]
           st == g_context.stats
           received == st.packets_received + 1
       IN  g_context' =
             [g_context EXCEPT
                !.stats.packets_received = received,
                !.stats.last_packet_timestamp_us = end_time,
                !.stats.avg_response_time_ms =
                    [num |-> st.avg_response_time_ms.num * (received - 1)
                               + processing_time * st.avg_response_time_ms.den,
                     den |-> st.avg_response_time_ms.den * received],
                !.stats.min_response_time_ms =
                    IF \/ FracLess(processing_time_ms, st.min_response_time_ms)
                       \/ st.min_response_time_ms.num = 0
                    THEN processing_time_ms ELSE @,
                !.stats.max_response_time_ms =
                    IF FracLess(st.max_response_time_ms, processing_time_ms)
                    THEN processing_time_ms ELSE @,
                !.stats.late_responses =
                    IF IsLateResponse(processing_time) THEN @ + 1 ELSE @]
    /\ worker' = [worker EXCEPT !.pc = "check_timeout"]
    /\ WorkerStep
    /\ UNCHANGED <<g_exit_requested, data_lock, ctl, now, net,
                   clients>>

\* Faulty variant: the loss is declared again in every iteration of the
\* silence, connected or not.
W_CheckTimeout_EveryIteration ==
    /\ worker.pc = "check_timeout"
    /\ LET current_time == now
           time_since_last_packet ==
               current_time - g_context.stats.last_packet_timestamp_us
       IN  IF \/ g_context.config.timeout_ms = 0
              \/ ~(time_since_last_packet > g_context.config.timeout_ms * 1000)
           THEN /\ worker' = [worker EXCEPT !.pc = "top"]
                /\ UNCHANGED g_context
           ELSE /\ g_context' = [g_context EXCEPT
                                   !.stats.is_connected = FALSE,
                                   !.stats.connection_lost_count = @ + 1]
                /\ worker' = IF g_context.connection_callback # NULL
                             THEN [worker EXCEPT !.pc = "cb_conn",
                                                 !.cb_arg = FALSE,
                                                 !.cb_next = "top"]
                             ELSE [worker EXCEPT !.pc = "top"]
    /\ WorkerStep
    /\ UNCHANGED <<g_exit_requested, data_lock, ctl, now, net,
                   clients>>

\* Faulty variant: a timeout of 0 does not switch the detection off.
W_CheckTimeout_NoDisable ==
    /\ worker.pc = "check_timeout"
    /\ LET current_time == now
           time_since_last_packet ==
               current_time - g_context.stats.last_packet_timestamp_us
       IN  IF \/ ~g_context.stats.is_connected
              \/ ~(time_since_last_packet > g_context.config.timeout_ms * 1000)
           THEN /\ worker' = [worker EXCEPT !.pc = "top"]
                /\ UNCHANGED g_context
           ELSE /\ g_context' = [g_context EXCEPT
                                   !.stats.is_connected = FALSE,
                                   !.stats.connection_lost_count = @ + 1]
                /\ worker' = IF g_context.connection_callback # NULL
                             THEN [worker EXCEPT !.pc = "cb_conn",
                                                 !.cb_arg = FALSE,
                                                 !.cb_next = "top"]
                             ELSE [worker EXCEPT !.pc = "top"]
    /\ WorkerStep
    /\ UNCHANGED <<g_exit_requested, data_lock, ctl, now, net,
                   clients>>

\* check_connection_timeout, then the yield
W_CheckTimeout ==
    /\ worker.pc = "check_timeout"
    /\ LET current_time == now
           time_since_last_packet ==
               current_time - g_context.stats.last_packet_timestamp_us
       IN  IF \/ g_context.config.timeout_ms = 0
              \/ ~g_context.stats.is_connected
              \/ ~(time_since_last_packet > g_context.config.timeout_ms * 1000)
           THEN /\ worker' = [worker EXCEPT !.pc = "top"]
                /\ UNCHANGED g_context
           ELSE /\ g_context' = [g_context EXCEPT
                                   !.stats.is_connected = FALSE,
                                   !.stats.connection_lost_count = @ + 1]
                /\ worker' = IF g_context.connection_callback # NULL
                             THEN [worker EXCEPT !.pc = "cb_conn",
                                                 !.cb_arg = FALSE,
                                                 !.cb_next = "top"]
                             ELSE [worker EXCEPT !.pc = "top"]
    /\ WorkerStep
    /\ UNCHANGED <<g_exit_requested, data_lock, ctl, now, net,
                   clients>>

(***************************************************************************)
(* Specifications                                                          *)
(***************************************************************************)
Lifecycle ==
    \/ \E config \in ConfigArgs : RSI_Init(config)
    \/ \E cb \in CallbackArgs : RSI_SetCallbacks(cb)
    \/ \E outcome \in StartOutcomes : RSI_Start(outcome)
    \/ RSI_Start_Running
    \/ RSI_Stop
    \/ RSI_Stop_Join
    \/ RSI_Cleanup
    \/ RSI_Cleanup_Rest

Accessors ==
    \/ \E position \in OutArgs : RSI_GetCartesianPosition(position)
    \/ \E position \in OutArgs : RSI_GetJointPosition(position)
    \/ \E correction \in CorrectionArgs : RSI_SetCartesianCorrection(correction)
    \/ \E stats \in OutArgs : RSI_GetStatistics(stats)

Worker(F, A, max_frames) ==
    \/ W_RecvNone
    \/ \E src \in A, data \in F : W_Recv(src, data, max_frames)
    \/ W_Begin
    \/ W_ConnCallbackReturn
    \/ W_Extract
    \/ W_Locked
    \/ W_Unlock
    \/ W_DataCallbackReturn
    \/ \E delivered \in BOOLEAN : W_Send(delivered)
    \/ W_Stats
    \/ W_CheckTimeout

\* The whole API, every ordering of lifecycle calls, and the worker.
Next ==
    \/ Lifecycle
    \/ Accessors
    \/ Return
    \/ W_Exit
    \/ Worker(Frames, Addrs, MaxFrames)

Spec == Init /\ [][Next]_vars

\* The library after RSI_Init with a liveness timeout of timeouts,
\* RSI_SetCallbacks(cb) and RSI_Start() have returned RSI_SUCCESS.
InitRunningWith(timeouts) ==
    /\ \E cb \in CallbackArgs, t \in timeouts :
          g_context =
            [ZeroContext EXCEPT
               !.stats.min_response_time_ms = [num |-> MIN_SENTINEL_US, den |-> 1],
               !.config = Config(t),
               !.initialized = TRUE,
               !.data_callback = cb.data,
               !.connection_callback = cb.connection,
               !.callback_user_data = cb.user_data,
               !.sock = "open",
               !.network_thread = "worker",
               !.running = TRUE]
    /\ g_exit_requested = FALSE
    /\ data_lock = "free"
    /\ worker = [IdleWorker EXCEPT !.pc = "top"]
    /\ ctl = [pc |-> "idle", from_cleanup |-> FALSE]
    /\ ret = NoRet
    /\ now = 0
    /\ net = ZeroNet
    /\ clients = IdleClients

\* The library after RSI_Init(NULL), RSI_SetCallbacks(cb) and RSI_Start()
\* have returned RSI_SUCCESS.
InitRunning == InitRunningWith({DEFAULT_TIMEOUT_MS})

\* The running worker on the wire: every kind of frame, answered with the
\* correction a client has stored.
NextWire ==
    \/ \E correction \in WireCorrectionArgs : RSI_SetCartesianCorrection(correction)
    \/ Return
    \/ Worker(WireFrames, Addrs, MaxFrames)

SpecWire == InitRunning /\ [][NextWire]_vars

\* The running worker and the link to the robot: frames with and without
\* an IPOC from two robots, and the clock the liveness timeout is read from.
NextLink ==
    \/ Worker(LinkFrames, LinkAddrs, MaxFrames)
    \/ Tick(MaxTicks)

SpecLink == InitRunning /\ [][NextLink]_vars

\* The running worker with its locked stretch step by step, two client
\* threads inside RSI_SetCartesianCorrection at once and the position
\* getters.
NextConcurrent ==
    \/ \E c \in Clients, correction \in ConcurrentCorrectionArgs :
          SCC_Lock(c, correction)
    \/ \E c \in Clients : SCC_Copy(c)
    \/ \E c \in Clients : SCC_Unlock(c)
    \/ \E position \in OutArgs : RSI_GetCartesianPosition(position)
    \/ \E position \in OutArgs : RSI_GetJointPosition(position)
    \/ Return
    \/ W_RecvNone
    \/ \E src \in Addrs, data \in Frames : W_Recv(src, data, MaxFrames)
    \/ W_Begin
    \/ W_ConnCallbackReturn
    \/ W_Extract
    \/ W_LockedParse
    \/ W_LockedRender
    \/ W_Unlock
    \/ W_DataCallbackReturn
    \/ \E delivered \in BOOLEAN : W_Send(delivered)
    \/ W_Stats
    \/ W_CheckTimeout

SpecConcurrent == InitRunning /\ [][NextConcurrent]_vars

\* The running worker fed with frames whose IPOC is a decimal number, and
\* clients reading the position.
NextCounter ==
    \/ Worker(CounterFrames, Addrs, MaxStatFrames)
    \/ \E position \in OutArgs : RSI_GetCartesianPosition(position)
    \/ Return

SpecCounter == InitRunning /\ [][NextCounter]_vars

\* The running worker and a client that calls RSI_Stop, with either way of
\* waiting for the worker: pthread_join, or the wait with a budget.  The
\* worker is scheduled again and again (sched_yield in its loop), a call
\* that has finished returns, and the join returns once the worker ended.
WorkerSteps == W_Exit \/ Worker(Frames, Addrs, MaxFrames)

NextStop ==
    \/ WorkerSteps
    \/ RSI_Stop
    \/ RSI_Stop_Join
    \/ RSI_Stop_WaitTimeout
    \/ Return

\* The worker's steps other than the two that parse the datagram.
WorkerStepsButParsing ==
    \/ W_Exit
    \/ W_RecvNone
    \/ \E src \in Addrs, data \in Frames : W_Recv(src, data, MaxFrames)
    \/ W_Begin
    \/ W_ConnCallbackReturn
    \/ W_Unlock
    \/ W_DataCallbackReturn
    \/ \E delivered \in BOOLEAN : W_Send(delivered)
    \/ W_Stats
    \/ W_CheckTimeout

\* Weak fairness of the worker thread.  For the two parsing steps it is
\* written out as its definition, with their enabling conditions as state
\* predicates.
WorkerFairness ==
    /\ WF_vars(WorkerStepsButParsing)
    /\ \/ []<>(~(worker.pc = "pp_extract" /\ ret = NoRet))
       \/ []<><<W_Extract>>_vars
    /\ \/ []<>(~(worker.pc = "pp_lock" /\ ret = NoRet /\ data_lock = "free"))
       \/ []<><<W_Locked>>_vars

SpecStop ==
    /\ InitRunning
    /\ [][NextStop]_vars
    /\ WorkerFairness
    /\ WF_vars(RSI_Stop_Join)
    /\ WF_vars(Return)

\* The link with the liveness timeout of RSI_Init(NULL) or switched off by
\* the configuration.
TimeoutArgs == {0, DEFAULT_TIMEOUT_MS}
SpecSilence == InitRunningWith(TimeoutArgs) /\ [][NextLink]_vars

\* The running worker, its statistics over several frames with the clock
\* advancing between and inside the cycles, and the snapshots clients take.
NextStats ==
    \/ Worker(Frames, Addrs, MaxStatFrames)
    \/ Tick(MaxTicks)
    \/ \E stats \in OutArgs : RSI_GetStatistics(stats)
    \/ Return

SpecStats == InitRunning /\ [][NextStats]_vars

\* The running worker parsing frames with and without an attribute, and
\* the position getters.
NextAttr ==
    \/ Worker(AttrFrames, Addrs, MaxFrames)
    \/ \E position \in OutArgs : RSI_GetCartesianPosition(position)
    \/ \E position \in OutArgs : RSI_GetJointPosition(position)
    \/ Return

SpecAttr == InitRunning /\ [][NextAttr]_vars

\* The running worker, two frames, and the clock around the late threshold.
NextLate ==
    \/ Worker(Frames, Addrs, MaxStatFrames)
    \/ \E us \in ClockSteps : Elapse(us, MaxClockUs)

SpecLate == InitRunning /\ [][NextLate]_vars

(***************************************************************************)
(* Properties                                                              *)
(***************************************************************************)
\* The worker is in the cycle that handles the datagram in recv_buffer.
InCycle == worker.pc \notin {"none", "top", "exited"} /\ worker.recv_len > 0

\* A datagram holds <IPOC> and, after it, </IPOC>.
HasIpocElement(data) ==
    LET tag == StrstrFrom(data, 1, TAG_IPOC_START)
    IN  /\ tag # 0
        /\ StrstrFrom(data, tag + Len(TAG_IPOC_START), TAG_IPOC_END) # 0

\* The text between <IPOC> and </IPOC>, whatever its length.
IpocText(data) ==
    LET start == StrstrFrom(data, 1, TAG_IPOC_START) + Len(TAG_IPOC_START)
    IN  SubSeq(data, start, StrstrFrom(data, start, TAG_IPOC_END) - 1)

IsUnsignedDecimal(text) == Len(text) > 0 /\ \A i \in 1..Len(text) : IsDigit(text[i])

Counters ==
    <<g_context.stats.packets_received, g_context.stats.packets_sent,
      g_context.stats.late_responses, g_context.stats.connection_lost_count>>

Callbacks ==
    <<g_context.data_callback, g_context.connection_callback,
      g_context.callback_user_data>>

AccessorOps ==
    {"RSI_GetCartesianPosition", "RSI_GetJointPosition",
     "RSI_SetCartesianCorrection", "RSI_GetStatistics"}

\* C1: whenever the worker has answered the datagram it received, the text
\* between <IPOC> and </IPOC> of the reply is byte for byte the text between
\* <IPOC> and </IPOC> of that datagram.
C1_ReplyEchoesIpoc ==
    net.replies > 0 => IpocText(net.last_out.data) = IpocText(net.last_in.data)

\* C2: once process_packet has extracted the IPOC of a datagram and has
\* passed its send step, exactly one reply has been sent for that datagram,
\* whatever correction is stored.
C2_ExtractedFrameIsAnswered == worker.pc = "pp_stats" => net.replies = 1

\* C3: at most one reply per inbound datagram, sent to the address the
\* datagram came from, and never more replies than datagrams received.
C3_OneReplyToTheSource ==
    /\ net.replies <= 1
    /\ net.sent <= net.received
    /\ net.replies = 1 => net.last_out.dst = net.last_in.src

C3_Witness ==
    /\ net.replies = 1
    /\ net.delivered = 1
    /\ net.last_in.src = "robotB"
    /\ net.last_out.dst = "robotB"

\* C4: no step of the cycle that handles a frame without an IPOC element
\* sends a reply or advances packets_received, packets_sent, late_responses
\* or connection_lost_count.
C4_MissingIpocAdvancesNothing ==
    [][(InCycle /\ ~HasIpocElement(g_context.recv_buffer))
          => (net'.sent = net.sent /\ Counters' = Counters)]_vars

\* C5: no step of the cycle that handles a frame whose IPOC text is not an
\* unsigned decimal integer sends a reply, changes the positions or
\* advances packets_received.
C5_UnparseableIpocDropsFrame ==
    [][(/\ InCycle
        /\ HasIpocElement(g_context.recv_buffer)
        /\ ~IsUnsignedDecimal(IpocText(g_context.recv_buffer)))
          => /\ net'.sent = net.sent
             /\ g_context'.cartesian = g_context.cartesian
             /\ g_context'.joints = g_context.joints
             /\ g_context'.stats.packets_received
                  = g_context.stats.packets_received]_vars

\* C6: is_connected goes from false to true, and the connection callback is
\* entered with true, only in the cycle of a frame whose IPOC is extracted.
C6_ConnectedOnlyByParsedFrame ==
    [][/\ (~g_context.stats.is_connected /\ g_context'.stats.is_connected)
            => HasIpocElement(g_context'.recv_buffer)
       /\ (worker.pc # "cb_conn" /\ worker'.pc = "cb_conn" /\ worker'.cb_arg = TRUE)
            => HasIpocElement(g_context'.recv_buffer)]_vars

\* C7: an accessor that returns RSI_SUCCESS was called in the running
\* state, and an accessor called in the initialised but not running
\* state returns RSI_ERROR_NOT_RUNNING.
C7_NoAccessorSucceedsUnlessRunning ==
    ret.op \in AccessorOps
      => /\ ret.code = RSI_SUCCESS => g_context.running
         /\ (g_context.initialized /\ ~g_context.running)
               => ret.code = RSI_ERROR_NOT_RUNNING

\* C8: while the library is uninitialised, every call other than RSI_Init
\* returns RSI_ERROR_INIT_FAILED and changes nothing of the context
\* (lifecycle flags, callbacks, correction, statistics) nor the exit flag,
\* the lock or the worker.
C8_UninitialisedRejectsAll ==
    [][(~g_context.initialized /\ ret = NoRet /\ ret' # NoRet
          /\ ret'.op # "RSI_Init")
          => /\ ret'.code = RSI_ERROR_INIT_FAILED
             /\ UNCHANGED <<g_context, g_exit_requested, data_lock, worker>>]_vars

\* after Cleanup of a library that had run
C8_Witness ==
    /\ ~g_context.initialized
    /\ g_context.stats.packets_received > 0
    /\ ret.op \in {"RSI_Stop", "RSI_GetStatistics", "RSI_SetCallbacks"}
    /\ ret.code = RSI_ERROR_INIT_FAILED

\* C9: RSI_Init called while the library is initialised returns
\* RSI_ERROR_ALREADY_RUNNING and changes nothing: the context (config,
\* callbacks, correction, positions, statistics, both flags) and the worker
\* stay as they are.
C9_SecondInitChangesNothing ==
    [][(g_context.initialized /\ ret = NoRet /\ ret'.op = "RSI_Init")
          => /\ ret'.code = RSI_ERROR_ALREADY_RUNNING
             /\ UNCHANGED <<g_context, g_exit_requested, data_lock, worker>>]_vars

\* RSI_Init refused while the worker is handling a datagram
C9_Witness ==
    /\ ret.op = "RSI_Init"
    /\ ret.code = RSI_ERROR_ALREADY_RUNNING
    /\ g_context.running
    /\ InCycle

\* C10: RSI_SetCallbacks called while running returns
\* RSI_ERROR_ALREADY_RUNNING and leaves the three callbacks as they are, and
\* no step changes them while the worker thread exists.
C10_CallbacksFixedWhileRunning ==
    [][/\ (g_context.running /\ ret = NoRet /\ ret'.op = "RSI_SetCallbacks")
            => (ret'.code = RSI_ERROR_ALREADY_RUNNING /\ Callbacks' = Callbacks)
       /\ (worker.pc # "none" /\ worker'.pc # "none")
            => Callbacks' = Callbacks]_vars

\* RSI_SetCallbacks refused while the worker is inside the data callback
C10_Witness ==
    /\ ret.op = "RSI_SetCallbacks"
    /\ ret.code = RSI_ERROR_ALREADY_RUNNING
    /\ g_context.running
    /\ worker.pc = "cb_data"

\* C11: in every reachable state, whatever lifecycle calls were made
\* (failing ones and RSI_Cleanup while running included), running implies
\* initialized.
C11_RunningImpliesInitialized == g_context.running => g_context.initialized

\* RSI_Cleanup was called while running and is waiting for the worker
C11_Witness ==
    /\ ctl.pc = "stop_join"
    /\ ctl.from_cleanup
    /\ g_context.running
    /\ g_context.initialized

\* The context as a successful RSI_Init leaves it, its config apart.
FreshContext(ctx) ==
    /\ ctx.stats.packets_received = 0
    /\ ctx.stats.packets_sent = 0
    /\ ctx.stats.late_responses = 0
    /\ ctx.stats.connection_lost_count = 0
    /\ ~ctx.stats.is_connected
    /\ ctx.stats.min_response_time_ms = [num |-> MIN_SENTINEL_US, den |-> 1]
    /\ ctx.correction = CORR_ZERO
    /\ ctx.cartesian = ZeroCartesian
    /\ ctx.joints = ZeroJoints
    /\ ctx.data_callback = NULL
    /\ ctx.connection_callback = NULL
    /\ ctx.callback_user_data = NULL

\* C12: RSI_Init called in the uninitialised state (after RSI_Cleanup as
\* well as at the start) returns RSI_SUCCESS, and a successful RSI_Init
\* leaves a fresh context whatever the previous session left: the four
\* counters zero, is_connected false, the correction and both positions
\* zero, no callbacks, min_response_time_ms at its sentinel.
C12_InitAfterCleanupIsFresh ==
    [][(ret = NoRet /\ ret'.op = "RSI_Init")
          => /\ ~g_context.initialized => ret'.code = RSI_SUCCESS
             /\ ret'.code = RSI_SUCCESS
                  => (g_context'.initialized /\ FreshContext(g_context'))]_vars

\* RSI_Init succeeded after a session that received a datagram, replied,
\* stored a correction or bound callbacks
C12_Witness ==
    /\ ret.op = "RSI_Init"
    /\ ret.code = RSI_SUCCESS
    /\ net.sent > 0

\* The correction a reply carries: the six attributes of its RKorr element.
RKorrOf(reply) ==
    LET rkorr == StrstrFrom(reply, 1, <<"<", "R", "K", "o", "r", "r">>)
    IN  [x |-> parse_position_attr(reply, rkorr, <<"X">>),
         y |-> parse_position_attr(reply, rkorr, <<"Y">>),
         z |-> parse_position_attr(reply, rkorr, <<"Z">>),
         a |-> parse_position_attr(reply, rkorr, <<"A">>),
         b |-> parse_position_attr(reply, rkorr, <<"B">>),
         c |-> parse_position_attr(reply, rkorr, <<"C">>)]

\* C13: the stored correction changes only by a RSI_SetCartesianCorrection
\* that returns RSI_SUCCESS, which stores its argument; no step of the
\* worker changes it; and every reply the worker renders carries, at the
\* four fractional digits of its RKorr attributes, the correction stored
\* at that moment.
C13_CorrectionIsSticky ==
    [][/\ g_context'.correction # g_context.correction
            => /\ ret'.op = "RSI_SetCartesianCorrection"
               /\ ret'.code = RSI_SUCCESS
       /\ (/\ ret = NoRet
           /\ ret'.op = "RSI_SetCartesianCorrection"
           /\ ret'.code = RSI_SUCCESS)
            => g_context'.correction = ret'.arg[1]
       /\ (/\ worker.pc = "pp_lock"
           /\ worker'.pc = "pp_unlock"
           /\ worker'.response_len > 0)
            => RKorrOf(g_context'.send_buffer) = g_context.correction]_vars

\* a reply has been rendered with the correction a client stored
C13_Witness ==
    /\ worker.pc = "pp_unlock"
    /\ worker.response_len > 0
    /\ g_context.correction = CORR_SMALL
    /\ RKorrOf(g_context.send_buffer) = CORR_SMALL

\* C14: the reply the worker sends carries the correction stored at the
\* moment it is sent, that is the argument of the last
\* RSI_SetCartesianCorrection that returned RSI_SUCCESS before the send, a
\* call made from inside the data callback of the same frame included.
C14_NextReplyCarriesLatest ==
    [][(worker.pc = "pp_send" /\ net'.sent # net.sent)
          => RKorrOf(net'.last_out.data) = g_context.correction]_vars


C16_PositionsVisibleBeforeReply ==
    [][/\ (worker.pc = "pp_send" /\ net'.sent # net.sent)
            => /\ data_lock = "free"
               /\ g_context.cartesian.ipoc = worker.ipoc_value
               /\ g_context.joints.ipoc = worker.ipoc_value
               /\ extract_ipoc(net'.last_out.data, IPOC_BUFFER_SIZE).ipoc_value
                     = worker.ipoc_value
       /\ \/ g_context'.cartesian.ipoc # g_context.cartesian.ipoc
          \/ g_context'.joints.ipoc # g_context.joints.ipoc
            => \/ /\ worker.pc = "pp_lock"
                  /\ g_context'.cartesian.ipoc = worker.ipoc_value
                  /\ g_context'.joints.ipoc = worker.ipoc_value
               \/ ret'.op = "RSI_Init"
       /\ (ret = NoRet /\ ret'.op = "RSI_GetCartesianPosition"
                       /\ ret'.code = RSI_SUCCESS)
            => ret'.out = Ptr(g_context.cartesian)
       /\ (ret = NoRet /\ ret'.op = "RSI_GetJointPosition"
                       /\ ret'.code = RSI_SUCCESS)
            => ret'.out = Ptr(g_context.joints)]_vars

\* a position read made after the reply was sent returned the IPOC of the
\* answered frame
C16_Witness ==
    /\ worker.pc = "pp_stats"
    /\ net.replies = 1
    /\ ret.op \in {"RSI_GetCartesianPosition", "RSI_GetJointPosition"}
    /\ ret.code = RSI_SUCCESS
    /\ ret.out[1].ipoc = worker.ipoc_value
    /\ ret.out[1].ipoc # U32Zero
    /\ extract_ipoc(net.last_out.data, IPOC_BUFFER_SIZE).ipoc_value = ret.out[1].ipoc


\* A datagram holds <RIst and an <IPOC> element but no <AIPos.
LacksAIPosOnly(data) ==
    /\ StrstrFrom(data, 1, TAG_RIST_START) # 0
    /\ HasIpocElement(data)
    /\ StrstrFrom(data, 1, TAG_AIPOS_START) = 0

\* C17: while the worker processes a datagram that holds <RIst and <IPOC>
\* but no <AIPos, no field of the joint buffer (axis values, timestamp,
\* ipoc) changes, the data callback is not entered, and the send step sends
\* a reply.
C17_NoAIPosLeavesJoints ==
    [][(InCycle /\ LacksAIPosOnly(net.last_in.data))
          => /\ g_context'.joints = g_context.joints
             /\ worker'.pc # "cb_data"
             /\ worker.pc = "pp_send" => net'.sent = net.sent + 1]_vars


\* C18: every statistics snapshot that RSI_GetStatistics returns has
\* packets_sent <= packets_received, snapshots taken while the worker is in
\* the middle of a cycle included.
C18_SnapshotSentAtMostReceived ==
    (ret.op = "RSI_GetStatistics" /\ ret.code = RSI_SUCCESS)
        => ret.out[1].packets_sent <= ret.out[1].packets_received


\* C19: packets_sent counts the replies that sendto handed to the network:
\* a failed sendto leaves it unchanged.
C19_SentCountsDelivered == g_context.stats.packets_sent = net.delivered


\* p <= q for fractions with positive denominators
FracLeq(p, q) == ~FracLess(q, p)

\* C20: every statistics snapshot with packets_received >= 1 has
\* min_response_time_ms <= avg_response_time_ms <= max_response_time_ms and
\* late_responses <= packets_received, whatever the processing times were,
\* a processing time of 0 microseconds included.
C20_SnapshotMinAvgMax ==
    (/\ ret.op = "RSI_GetStatistics"
     /\ ret.code = RSI_SUCCESS
     /\ ret.out[1].packets_received >= 1)
        => /\ FracLeq(ret.out[1].min_response_time_ms, ret.out[1].avg_response_time_ms)
           /\ FracLeq(ret.out[1].avg_response_time_ms, ret.out[1].max_response_time_ms)
           /\ ret.out[1].late_responses <= ret.out[1].packets_received


\* The connection callback is entered with the argument v in this step.
ConnCallbackEntered(v) ==
    /\ worker.pc # "cb_conn"
    /\ worker'.pc = "cb_conn"
    /\ worker'.cb_arg = v

\* The silence has lasted longer than the configured timeout.
SilenceExpired ==
    /\ g_context.config.timeout_ms > 0
    /\ now - g_context.stats.last_packet_timestamp_us
          > g_context.config.timeout_ms * 1000

\* C21: a connection loss is surfaced once per loss.  connection_lost_count
\* grows by one, and only in a check_connection_timeout that finds the link
\* connected and leaves it disconnected; the connection callback is entered
\* with false in exactly those steps when it is registered; a check that
\* finds the link connected after the timeout has expired does declare the
\* loss; and only the worker's handling of a received datagram connects the
\* link again, so however many iterations the silence lasts it is surfaced
\* once.
C21_LossSurfacedOnce ==
    [][/\ g_context'.stats.connection_lost_count # g_context.stats.connection_lost_count
            => /\ g_context'.stats.connection_lost_count
                     = g_context.stats.connection_lost_count + 1
               /\ worker.pc = "check_timeout"
               /\ g_context.stats.is_connected
               /\ ~g_context'.stats.is_connected
               /\ g_context.connection_callback # NULL => ConnCallbackEntered(FALSE)
       /\ (worker'.pc = "cb_conn" /\ worker.pc # "cb_conn" /\ worker'.cb_next = "top")
            => /\ worker'.cb_arg = FALSE
               /\ g_context'.stats.connection_lost_count
                     = g_context.stats.connection_lost_count + 1
       /\ (worker.pc = "check_timeout" /\ worker'.pc # "check_timeout"
              /\ g_context.stats.is_connected /\ SilenceExpired)
            => g_context'.stats.connection_lost_count
                  = g_context.stats.connection_lost_count + 1
       /\ (~g_context.stats.is_connected /\ g_context'.stats.is_connected)
            => (worker.pc = "pp_begin" /\ worker.recv_len > 0)]_vars

\* the loss was declared once and the worker is iterating again in the
\* same silence
C21_Witness ==
    /\ g_context.stats.connection_lost_count = 1
    /\ ~g_context.stats.is_connected
    /\ net.received >= 1
    /\ worker.pc = "check_timeout"
    /\ worker.recv_len = -1
    /\ SilenceExpired


\* C22: reconnection is automatic and the connection callbacks mirror
\* is_connected.  The worker's handling of a received datagram leaves the
\* link connected, with no lifecycle call; with a connection callback
\* registered, is_connected changes exactly in the steps that enter the
\* callback, and the callback's argument is the new value of is_connected,
\* which differs from the old one: the arguments alternate and is_connected
\* equals the most recent one.
C22_ReconnectAndAlternate ==
    [][/\ (worker.pc = "pp_begin" /\ worker'.pc # "pp_begin")
            => g_context'.stats.is_connected
       /\ g_context.connection_callback # NULL
            => ((g_context'.stats.is_connected # g_context.stats.is_connected)
                  <=> (worker.pc # "cb_conn" /\ worker'.pc = "cb_conn"))
       /\ (worker.pc # "cb_conn" /\ worker'.pc = "cb_conn")
            => /\ worker'.cb_arg = g_context'.stats.is_connected
               /\ g_context'.stats.is_connected # g_context.stats.is_connected]_vars

\* after a loss, the next datagram has connected the link again and the
\* connection callback is running with true
C22_Witness ==
    /\ g_context.stats.connection_lost_count = 1
    /\ g_context.stats.is_connected
    /\ net.received = 2
    /\ worker.pc = "cb_conn"
    /\ worker.cb_arg = TRUE
    /\ worker.cb_next = "pp_extract"


\* is_connected goes from true to false, or connection_lost_count changes.
LossDeclared ==
    \/ g_context.stats.is_connected /\ ~g_context'.stats.is_connected
    \/ g_context'.stats.connection_lost_count # g_context.stats.connection_lost_count

CompleteCorrections == {CORR_ZERO} \cup {a[1] : a \in ConcurrentCorrectionArgs}

\* the worker's step that renders the reply
Rendered == worker.pc = "pp_locked" /\ worker'.pc = "pp_unlock"

\* C24: no torn values.  g_context.correction is written only by the client
\* that holds the lock, and holds that client's whole argument when it
\* unlocks; the worker renders a reply only while no client is inside the
\* copy, and the reply carries the six fields stored then, those of one
\* complete call; the position buffers are written only by the worker
\* inside its locked stretch, and a position getter copies them only while
\* the lock is free, so it returns what the worker left when it last
\* unlocked.
C24_NoTornValues ==
    [][/\ g_context'.correction # g_context.correction
            => \E c \in Clients : data_lock = c /\ clients[c].pc = "memcpy"
       /\ \A c \in Clients :
             (clients[c].pc = "memcpy" /\ clients'[c].pc = "idle")
                => g_context.correction = clients[c].arg[1]
       /\ Rendered
            => /\ \A c \in Clients : clients[c].pc = "idle"
               /\ g_context.correction \in CompleteCorrections
               /\ worker'.response_len > 0
               /\ RKorrOf(SubSeq(g_context'.send_buffer, 1, worker'.response_len))
                     = g_context.correction
       /\ \/ g_context'.cartesian # g_context.cartesian
          \/ g_context'.joints # g_context.joints
            => /\ worker.pc \in {"pp_lock", "pp_locked"}
               /\ data_lock' = "worker"
       /\ (ret = NoRet /\ ret'.op = "RSI_GetCartesianPosition"
                       /\ ret'.code = RSI_SUCCESS)
            => /\ data_lock = "free"
               /\ worker.pc # "pp_locked"
               /\ ret'.out = Ptr(g_context.cartesian)
       /\ (ret = NoRet /\ ret'.op = "RSI_GetJointPosition"
                       /\ ret'.code = RSI_SUCCESS)
            => /\ data_lock = "free"
               /\ worker.pc # "pp_locked"
               /\ ret'.out = Ptr(g_context.joints)]_vars

\* a client is half way through its copy, the stored correction is a mix
\* of two calls, and the worker waits for the lock with a frame to answer
C24_Witness ==
    /\ \E c \in Clients :
          /\ data_lock = c
          /\ clients[c].pc = "memcpy"
          /\ clients[c].copied = 3
    /\ g_context.correction \notin CompleteCorrections
    /\ worker.pc = "pp_lock"


\* a user callback (data or connection) is executing on the worker
InCallback == worker.pc \in {"cb_conn", "cb_data"}

\* C25: the worker never holds the data lock while a user callback is
\* executing: the lock is free then, and an accessor called from inside
\* the callback can take it and return.
C25_NoLockInCallback ==
    InCallback
        => /\ data_lock = "free"
           /\ ret = NoRet => ENABLED RSI_GetStatistics(Ptr("out"))

\* RSI_GetStatistics has taken the lock and returned RSI_SUCCESS while the
\* connection callback for a loss was executing
C25_Witness ==
    /\ worker.pc = "cb_conn"
    /\ worker.cb_arg = FALSE
    /\ ret.op = "RSI_GetStatistics"
    /\ ret.code = RSI_SUCCESS
    /\ ~ret.out[1].is_connected


RECURSIVE StripZeros(_)
\* a digit string without its leading zeros
StripZeros(text) ==
    IF Len(text) > 0 /\ text[1] = "0" THEN StripZeros(Tail(text)) ELSE text

RECURSIVE DigitsLeq(_, _)
\* s <= t for digit strings of equal length
DigitsLeq(s, t) ==
    IF Len(s) = 0 THEN TRUE
    ELSE IF s[1] # t[1] THEN DigitVal(s[1]) < DigitVal(t[1])
    ELSE DigitsLeq(Tail(s), Tail(t))

\* the decimal number written by s is at most the one written by t
DecimalLeq(s, t) ==
    LET a == StripZeros(s)
        b == StripZeros(t)
    IN  \/ Len(a) < Len(b)
        \/ Len(a) = Len(b) /\ DigitsLeq(a, b)

\* v <= w for unsigned 32-bit values <<hi, lo>>
U32Leq(v, w) == v[1] < w[1] \/ (v[1] = w[1] /\ v[2] <= w[2])

\* C26: when the worker stores a frame whose IPOC text is a decimal number
\* not below the IPOC text of the frame answered before it, the ipoc of the
\* Cartesian buffer, which RSI_GetCartesianPosition returns, does not go
\* down.
C26_IpocNeverGoesDown ==
    [][(/\ worker.pc = "pp_lock"
        /\ worker'.pc = "pp_unlock"
        /\ net.sent > 0
        /\ IsUnsignedDecimal(IpocText(net.last_in.data))
        /\ IsUnsignedDecimal(IpocText(net.last_out.data))
        /\ DecimalLeq(IpocText(net.last_out.data), IpocText(net.last_in.data)))
          => U32Leq(g_context.cartesian.ipoc, g_context'.cartesian.ipoc)]_vars


\* C27: an accessor that returns an error changes nothing (the stored
\* correction, both position buffers, the statistics, the caller's output
\* buffer), and the error is the first that applies of: not initialised
\* (RSI_ERROR_INIT_FAILED), not running (RSI_ERROR_NOT_RUNNING), null
\* argument (RSI_ERROR_INVALID_PARAM).
C27_FailedAccessorHasNoEffect ==
    [][(ret = NoRet /\ ret'.op \in AccessorOps /\ ret'.code # RSI_SUCCESS)
          => /\ g_context' = g_context
             /\ ret'.out = NullPtr
             /\ ret'.code = IF ~g_context.initialized THEN RSI_ERROR_INIT_FAILED
                            ELSE IF ~g_context.running THEN RSI_ERROR_NOT_RUNNING
                            ELSE RSI_ERROR_INVALID_PARAM
             /\ ret'.code = RSI_ERROR_INVALID_PARAM => ret'.arg = NullPtr]_vars


\* RSI_Stop returns RSI_SUCCESS in this step.
StopReturns == ret = NoRet /\ ret'.op = "RSI_Stop" /\ ret'.code = RSI_SUCCESS

\* C28: RSI_Stop called while running eventually returns, under fair
\* scheduling of the worker; when it returns RSI_SUCCESS running is false
\* and the worker has terminated; and while the library is not running and
\* no lifecycle call is in progress the worker sends no reply and enters no
\* callback.
C28_StopEndsTheWorker ==
    /\ (ctl.pc = "stop_join") ~> (ctl.pc = "idle" /\ ~g_context.running)
    /\ [][/\ StopReturns
               => (~g_context'.running /\ worker'.pc \in {"none", "exited"})
          /\ (~g_context.running /\ ctl.pc = "idle")
               => /\ net'.sent = net.sent
                  /\ ~(worker.pc \notin {"cb_conn", "cb_data"}
                          /\ worker'.pc \in {"cb_conn", "cb_data"})]_vars


\* The worker calls sendto in this step (process_packet, response_len > 0).
WorkerCallsSendto ==
    /\ worker.pc = "pp_send"
    /\ worker'.pc = "pp_stats"
    /\ worker.response_len > 0

\* The worker calls recvfrom in this step (top of an iteration that runs).
WorkerCallsRecvfrom ==
    /\ worker.pc = "top"
    /\ worker'.pc \in {"pp_begin", "check_timeout"}

\* C29: the worker loop ends only when the shutdown flag is observed; the
\* socket is closed only after the worker has exited, so the worker never
\* calls recvfrom or sendto on a closed socket; declaring the link lost or
\* dropping a frame never ends the loop.
C29_SocketOutlivesWorker ==
    [][/\ (worker.pc # "exited" /\ worker'.pc = "exited")
            => (worker.pc = "top" /\ g_exit_requested)
       /\ (g_context.sock = "open" /\ g_context'.sock = "closed")
            => worker.pc \in {"exited", "none"}
       /\ (WorkerCallsSendto \/ WorkerCallsRecvfrom)
            => g_context.sock = "open"]_vars


\* What clients read through the accessors: both position buffers and the
\* statistics.
ClientVisible(ctx) == <<ctx.cartesian, ctx.joints, ctx.stats>>

\* C30: every write of the worker to the position buffers or to a field of
\* the statistics is made while the worker holds the data lock, and
\* RSI_GetStatistics never takes its snapshot between the statistics writes
\* of one cycle (packets_sent counted, the rest not yet updated).
C30_WorkerWritesUnderLock ==
    [][/\ (worker' # worker /\ ClientVisible(g_context') # ClientVisible(g_context))
            => (data_lock = "worker" \/ data_lock' = "worker")
       /\ (ret = NoRet /\ ret'.op = "RSI_GetStatistics" /\ ret'.code = RSI_SUCCESS)
            => ~(worker.pc = "pp_stats" /\ worker.response_len > 0)]_vars


\* A data callback is bound and the datagram being handled holds an IPOC
\* element, <RIst and <AIPos.
DataCallbackDue ==
    /\ g_context.data_callback # NULL
    /\ HasIpocElement(net.last_in.data)
    /\ StrstrFrom(net.last_in.data, 1, TAG_RIST_START) # 0
    /\ StrstrFrom(net.last_in.data, 1, TAG_AIPOS_START) # 0

\* Both position buffers hold what the datagram being handled carries, with
\* the ipoc of the reply that is pending for it.
PositionsStored ==
    LET data == net.last_in.data
        cp == parse_cartesian_position(data, g_context.cartesian,
                                       g_context.cartesian.timestamp_us)
        jp == parse_joint_position(data, g_context.joints,
                                   g_context.joints.timestamp_us)
        pending == SubSeq(g_context.send_buffer, 1, worker.response_len)
    IN  /\ cp.ok /\ cp.position = g_context.cartesian
        /\ jp.ok /\ jp.position = g_context.joints
        /\ g_context.cartesian.ipoc = worker.ipoc_value
        /\ g_context.joints.ipoc = worker.ipoc_value
        /\ worker.response_len > 0
             => extract_ipoc(pending, IPOC_BUFFER_SIZE).ipoc_value
                   = worker.ipoc_value

C32_LateIffOverFourMs ==
    [][/\ g_context'.stats.late_responses # g_context.stats.late_responses
            => /\ worker.pc = "pp_stats"
               /\ g_context'.stats.late_responses
                     = g_context.stats.late_responses + 1
       /\ (worker.pc = "pp_stats" /\ worker'.pc # "pp_stats")
            => ((g_context'.stats.late_responses
                     = g_context.stats.late_responses + 1)
                  <=> (now - worker.start_time > 4000))
       /\ (worker.pc = "pp_begin" /\ worker'.pc # "pp_begin")
            => worker'.start_time = now
       /\ (worker.pc \in {"cb_conn", "cb_data", "pp_extract", "pp_lock",
                          "pp_unlock", "pp_send"})
            => worker'.start_time = worker.start_time]_vars

\* two frames were answered with a data callback bound: one took 4001
\* microseconds and was counted late; the last took exactly 4000, spent
\* after its positions were stored (callback and sendto), and was not
C32_Witness ==
    /\ g_context.data_callback # NULL
    /\ g_context.stats.packets_received = 2
    /\ g_context.stats.late_responses = 1
    /\ g_context.stats.max_response_time_ms = [num |-> 4001, den |-> 1]
    /\ g_context.stats.last_packet_timestamp_us - worker.start_time = 4000
    /\ g_context.cartesian.timestamp_us = worker.start_time
    /\ worker.pc = "check_timeout"


\* The element of a datagram that starts with tag, up to its closing '>',
\* does not carry the attribute name.
ElementLacks(data, tag, name) ==
    LET start == StrstrFrom(data, 1, tag)
        close == StrstrFrom(data, start, <<">">>)
        element == SubSeq(data, start, close)
    IN  /\ start # 0
        /\ StrstrFrom(element, 1, <<" ">> \o name \o <<"=", "\"">>) = 0

\* C33: once the worker has stored the positions of a frame, every field
\* whose attribute the <RIst element (X, Y, Z, A, B, C) or the <AIPos
\* element (A1..A6) does not carry is 0.0, whatever follows the element.
C33_MissingAttributeIsZero ==
    worker.pc = "pp_unlock"
    => LET data == net.last_in.data
           pos == g_context.cartesian
           fields == <<pos.x, pos.y, pos.z, pos.a, pos.b, pos.c>>
           names == <<"X", "Y", "Z", "A", "B", "C">>
       IN  /\ \A i \in 1..6 :
                ElementLacks(data, TAG_RIST_START, <<names[i]>>)
                   => fields[i] = DZero
           /\ \A i \in 1..6 :
                ElementLacks(data, TAG_AIPOS_START, <<"A", DigitChar(i)>>)
                   => g_context.joints.axis[i] = DZero


\* RSI_Start passes its checks in the state the step starts from.
StartAttempted == g_context.initialized /\ ~g_context.running

C35_CallbackOnlyWhileRunning ==
    /\ InCallback => g_context.running
    /\ (worker.pc = "cb_data" /\ ret.op \in AccessorOps)
          => ret.code # RSI_ERROR_NOT_RUNNING


\* The shared state a session leaves behind: the stored correction, the
\* four counters and is_connected.
SessionState ==
    <<g_context.correction, Counters, g_context.stats.is_connected>>

\* C36: no step of RSI_Stop or RSI_Start changes the stored correction, the
\* four counters or is_connected; between the return of Stop and the next
\* Start, when there is no worker, only a successful RSI_Init changes them;
\* and the worker renders each reply with the stored correction, so the
\* first reply after Start carries the correction of the previous session.
C36_StopStartKeepsSharedState ==
    [][/\ (ctl' # ctl \/ ret'.op \in {"RSI_Stop", "RSI_Start"})
            => SessionState' = SessionState
       /\ (worker.pc = "none" /\ SessionState' # SessionState)
            => (ret'.op = "RSI_Init" /\ ret'.code = RSI_SUCCESS)
       /\ (/\ worker.pc = "pp_lock"
           /\ worker'.pc = "pp_unlock"
           /\ worker'.response_len > 0)
            => RKorrOf(SubSeq(g_context'.send_buffer, 1, worker'.response_len))
                  = g_context.correction]_vars

\* Start has just returned and the worker it created has rendered its first
\* reply with the correction stored before the preceding Stop (the
\* correction can only be stored while running)
C36_Witness ==
    /\ ret.op = "RSI_Start"
    /\ ret.code = RSI_SUCCESS
    /\ g_context.correction = CORR_SMALL
    /\ worker.pc = "pp_unlock"
    /\ worker.response_len > 0
    /\ RKorrOf(SubSeq(g_context.send_buffer, 1, worker.response_len)) = CORR_SMALL

=============================================================================
